---- MODULE Spec2Model ----
(***************************************************************************)
(* Verification model of redisorm: the reply decoder (scan/mapper.go), the *)
(* filter-expression compiler (query/compile.go, query/expr.go) and the    *)
(* command builders (query/builder.go).                                    *)
(*                                                                         *)
(* Go strings are sequences of one-character strings, so that trimming,    *)
(* prefix tests and concatenation are computed and not assumed.            *)
(* Go interface values are records tagged with their dynamic type in t.    *)
(***************************************************************************)
EXTENDS Integers, Sequences, FiniteSets, TLC

VARIABLES
    raw,      \* scan: the reply handed to DecodeMaps
    dpc,      \* scan: position inside DecodeMaps
    reply,    \* scan: the normalised reply
    total,    \* scan: extractHits' first result
    hits,     \* scan: extractHits' second result
    out,      \* scan: the row slice under construction
    idx,      \* scan: loop index of `for i, kv := range hits` (0-based)
    res,      \* scan: what the call ended with
    expr,     \* query: the expression built so far
    depth,    \* query: nesting depth of expr
    compiled, \* query: outcome of the last Compile call
    sb,       \* query: the SearchBuilder
    ab,       \* query: the AggregateBuilder
    args,     \* query: outcome of the last RawArgs call
    kind,     \* builder session: the builder in play, "search" or "aggregate"
    hist,     \* builder session: the mutator calls the builder received, in order
    fsBuf,    \* builder session: the caller's []string, as last passed to Select
    shared,   \* builder session: b.returnFields has the caller's backing array
    rawLog,   \* builder session: the RawArgs results, each with its position
    rpc,      \* builder session: position inside Run
    ran,      \* builder session: what Run ended with
    doLog,    \* executor: the argument vectors it was called with
    decoded,  \* builder session: number of scan.DecodeMaps calls made by Run
    opts,     \* repository: the options applied to the builder, in order
    metaCache, \* scan: the process-wide sync.Map, reflect.Type -> []fieldMeta
    task,     \* scan: per goroutine, the typed decode it is running
    compLog,  \* query: the outcomes of the Compile calls made on expr, in order
    pool,     \* internal: the builders builderPool holds
    bufs,     \* internal: the text of every *strings.Builder allocated so far
    brw       \* internal: per borrower, its position and the builder it holds

dvars == <<raw, dpc, reply, total, hits, out, idx, res>>
qvars == <<expr, depth, compiled, sb, ab, args>>
bvars == <<kind, hist, fsBuf, shared, rawLog, rpc, ran, doLog, decoded, opts>>
tvars == <<metaCache, task>>
pvars == <<compLog, pool, bufs, brw>>
vars == <<raw, dpc, reply, total, hits, out, idx, res,
          expr, depth, compiled, sb, ab, args,
          kind, hist, fsBuf, shared, rawLog, rpc, ran, doLog, decoded, opts,
          metaCache, task, compLog, pool, bufs, brw>>

(***************************************************************************)
(* Bounds of the model.                                                    *)
(***************************************************************************)
MaxPairs == 2      \* identifier/payload pairs in a legacy array
MaxKV == 2         \* key/value pairs in a flat payload
MaxResults == 2    \* entries of a keyed map's results sequence
MaxDepth == 2      \* nesting depth of a built expression
MaxArity == 2      \* sub-expressions of an And / Or
MaxVals == 2       \* values of an In

(***************************************************************************)
(* Go values.                                                              *)
(***************************************************************************)
Str(s) == [t |-> "string", s |-> s]
Bytes(s) == [t |-> "bytes", b |-> s]
I64(n) == [t |-> "int64", n |-> n]
IntV(n) == [t |-> "int", i |-> n]
F64(x) == [t |-> "float64", tenths |-> x]     \* the float x/10
BoolV(b) == [t |-> "bool", bv |-> b]
NilV == [t |-> "nil"]
Slice(xs) == [t |-> "slice", xs |-> xs]       \* []interface{}
SMap(m) == [t |-> "smap", m |-> m]            \* map[string]interface{}
GMap(kv) == [t |-> "gmap", kv |-> kv]         \* map[interface{}]interface{}, in iteration order
SliceCmd(xs) == [t |-> "slicecmd", val |-> xs] \* *redis.SliceCmd

EmptyMap == [k \in {} |-> NilV]

\* m[k] = v on a Go map held as a function
MapPut(m, k, v) == [x \in (DOMAIN m) \cup {k} |-> IF x = k THEN v ELSE m[x]]

(***************************************************************************)
(* strings / strconv / fmt helpers                                         *)
(***************************************************************************)
IsSpace(c) == c \in {" ", "\t", "\n", "\r"}

RECURSIVE TrimLeft(_)
TrimLeft(s) == IF s # <<>> /\ IsSpace(Head(s)) THEN TrimLeft(Tail(s)) ELSE s

RECURSIVE TrimRight(_)
TrimRight(s) ==
    IF s # <<>> /\ IsSpace(s[Len(s)]) THEN TrimRight(SubSeq(s, 1, Len(s) - 1)) ELSE s

TrimSpace(s) == TrimRight(TrimLeft(s))

DigitChar(d) == <<"0", "1", "2", "3", "4", "5", "6", "7", "8", "9">>[d + 1]

RECURSIVE Digits(_)
Digits(n) == IF n < 10 THEN <<DigitChar(n)>> ELSE Digits(n \div 10) \o <<DigitChar(n % 10)>>

\* strconv.FormatInt(n, 10) and strconv.Itoa(n)
FormatInt(n) == IF n < 0 THEN <<"-">> \o Digits(-n) ELSE Digits(n)

\* strconv.FormatFloat(x, 'f', -1, 64) for x = tenths/10: the shortest
\* decimal text, without a fraction when x is integral
FormatFloat(tenths) ==
    LET a == IF tenths < 0 THEN -tenths ELSE tenths
        sign == IF tenths < 0 THEN <<"-">> ELSE <<>>
    IN  IF a % 10 = 0
        THEN sign \o Digits(a \div 10)
        ELSE sign \o Digits(a \div 10) \o <<".">> \o <<DigitChar(a % 10)>>

\* fmt.Sprint(v) / the %v verb, on the scalars of the model (for the small
\* floats used here %v and FormatFloat(x, 'f', -1, 64) print the same text)
Sprint(v) ==
    CASE v.t = "string" -> v.s
      [] v.t = "int64" -> FormatInt(v.n)
      [] v.t = "int" -> FormatInt(v.i)
      [] v.t = "float64" -> FormatFloat(v.tenths)
      [] v.t = "bool" -> IF v.bv THEN <<"t", "r", "u", "e">> ELSE <<"f", "a", "l", "s", "e">>
      [] v.t = "nil" -> <<"<", "n", "i", "l", ">">>

(***************************************************************************)
(* scan/mapper.go                                                          *)
(***************************************************************************)
toStr(v) ==
    CASE v.t = "string" -> TrimSpace(v.s)
      [] v.t = "bytes" -> TrimSpace(v.b)
      [] v.t = "int64" -> FormatInt(v.n)
      [] v.t = "float64" -> FormatFloat(v.tenths)
      [] OTHER -> TrimSpace(Sprint(v))

RESULTS == <<"r", "e", "s", "u", "l", "t", "s">>
EXTRA_ATTRIBUTES == <<"e", "x", "t", "r", "a", "_", "a", "t", "t", "r", "i", "b", "u", "t", "e", "s">>
VALUES == <<"v", "a", "l", "u", "e", "s">>

\* for k, val := range v { m[toStr(k)] = val }
RECURSIVE stringKeyed(_, _)
stringKeyed(kv, m) ==
    IF kv = <<>> THEN m
    ELSE stringKeyed(Tail(kv), MapPut(m, toStr(Head(kv)[1]), Head(kv)[2]))

normalize(v) ==
    CASE v.t = "slicecmd" -> [err |-> "", v |-> Slice(v.val)]
      [] v.t = "slice" -> [err |-> "", v |-> v]
      [] v.t = "smap" -> [err |-> "", v |-> v]
      [] v.t = "gmap" -> [err |-> "", v |-> SMap(stringKeyed(v.kv, EmptyMap))]
      [] OTHER -> [err |-> "scan: unsupported reply type", v |-> NilV]

\* hitOf looking for "values" before "extra_attributes"
hitOf_valuesFirst(r) ==
    LET hit == IF r.t = "smap" THEN r.m ELSE stringKeyed(r.kv, EmptyMap)
    IN  IF VALUES \in DOMAIN hit THEN hit[VALUES]
        ELSE IF EXTRA_ATTRIBUTES \in DOMAIN hit THEN hit[EXTRA_ATTRIBUTES]
        ELSE SMap(hit)

\* the body of the loop over resultsRaw, for one entry r
hitOf(r) ==
    LET hit == IF r.t = "smap" THEN r.m ELSE stringKeyed(r.kv, EmptyMap)
    IN  IF EXTRA_ATTRIBUTES \in DOMAIN hit THEN hit[EXTRA_ATTRIBUTES]
        ELSE IF VALUES \in DOMAIN hit THEN hit[VALUES]
        ELSE SMap(hit)

extractHitsMap(top) ==
    IF ~(RESULTS \in DOMAIN top /\ top[RESULTS].t = "slice")
    THEN [st |-> "err", err |-> "scan: missing results array", total |-> 0, hits |-> <<>>]
    ELSE LET resultsRaw == top[RESULTS].xs
         IN  IF \E i \in 1..Len(resultsRaw) : resultsRaw[i].t \notin {"smap", "gmap"}
             THEN [st |-> "err", err |-> "scan: unknown hit type", total |-> 0, hits |-> <<>>]
             ELSE [st |-> "ok", err |-> "", total |-> Len(resultsRaw),
                   hits |-> [i \in 1..Len(resultsRaw) |-> hitOf(resultsRaw[i])]]

\* extractHitsArray reading the identifier slots: arr[i*2+1]
extractHitsArray_docIds(arr) ==
    IF Len(arr) = 0
    THEN [st |-> "ok", err |-> "", total |-> 0, hits |-> <<>>]
    ELSE IF arr[1].t # "int64"
    THEN [st |-> "err", err |-> "scan: first array element is not int64", total |-> 0, hits |-> <<>>]
    ELSE LET count == arr[1].n
         IN  IF count < 0
             THEN [st |-> "panic", err |-> "makeslice: len out of range", total |-> 0, hits |-> <<>>]
             ELSE IF \E i \in 0..(count - 1) : i * 2 + 1 >= Len(arr)
             THEN [st |-> "panic", err |-> "index out of range", total |-> 0, hits |-> <<>>]
             ELSE [st |-> "ok", err |-> "", total |-> count,
                   hits |-> [i \in 1..count |-> arr[(i - 1) * 2 + 1 + 1]]]

extractHitsArray(arr) ==
    IF Len(arr) = 0
    THEN [st |-> "ok", err |-> "", total |-> 0, hits |-> <<>>]
    ELSE IF arr[1].t # "int64"
    THEN [st |-> "err", err |-> "scan: first array element is not int64", total |-> 0, hits |-> <<>>]
    ELSE LET count == arr[1].n
         IN  IF count < 0
             THEN \* make([]any, total) with a negative length
                  [st |-> "panic", err |-> "makeslice: len out of range", total |-> 0, hits |-> <<>>]
             ELSE IF \E i \in 0..(count - 1) : i * 2 + 2 >= Len(arr)
             THEN \* arr[i*2+2] past the end of arr
                  [st |-> "panic", err |-> "index out of range", total |-> 0, hits |-> <<>>]
             ELSE [st |-> "ok", err |-> "", total |-> count,
                   hits |-> [i \in 1..count |-> arr[(i - 1) * 2 + 2 + 1]]]

extractHits(r) ==
    CASE r.t = "smap" -> extractHitsMap(r.m)
      [] r.t = "slice" -> extractHitsArray(r.xs)
      [] OTHER -> [st |-> "err", err |-> "scan: unrecognised reply", total |-> 0, hits |-> <<>>]

\* for i := 0; i+1 < len(t); i += 2 { m[toStr(t[i])] = toStr(t[i+1]) }
RECURSIVE kvList(_, _, _)
kvList(t, i, m) ==
    IF i + 1 < Len(t)
    THEN kvList(t, i + 2, MapPut(m, toStr(t[i + 1]), toStr(t[i + 2])))
    ELSE m

\* for k, v := range t { m[toStr(k)] = toStr(v) }
RECURSIVE kvGeneric(_, _)
kvGeneric(kv, m) ==
    IF kv = <<>> THEN m
    ELSE kvGeneric(Tail(kv), MapPut(m, toStr(Head(kv)[1]), toStr(Head(kv)[2])))

toStrMap(v) ==
    CASE v.t = "slice" -> [err |-> "", m |-> kvList(v.xs, 0, EmptyMap)]
      [] v.t = "gmap" -> [err |-> "", m |-> kvGeneric(v.kv, EmptyMap)]
      [] v.t = "smap" -> [err |-> "", m |-> [k \in DOMAIN v.m |-> toStr(v.m[k])]]
      [] OTHER -> [err |-> "scan: unsupported kv type", m |-> EmptyMap]

(***************************************************************************)
(* The calls' outcomes.                                                    *)
(***************************************************************************)
NoRes == [kind |-> "none", rows |-> <<>>, err |-> ""]
Rows(rs) == [kind |-> "rows", rows |-> rs, err |-> ""]
Failed(e) == [kind |-> "error", rows |-> <<>>, err |-> e]     \* return nil, err
Panicked(e) == [kind |-> "panic", rows |-> <<>>, err |-> e]

NilRow == [isnil |-> TRUE, m |-> EmptyMap]     \* the zero value of map[string]string
Row(m) == [isnil |-> FALSE, m |-> m]

(***************************************************************************)
(* Replies the decoder is run on.                                          *)
(***************************************************************************)
\* pair j of a flat payload: text, binary text, integer and float values;
\* the first two keys are equal once trimmed
PairKey(j) ==
    CASE j % 4 = 0 -> Str(<<"k">>)
      [] j % 4 = 1 -> Str(<<" ", "k">>)
      [] j % 4 = 2 -> Bytes(<<"b", " ">>)
      [] j % 4 = 3 -> I64(7)
PairVal(j) ==
    CASE j % 4 = 0 -> Str(<<" ", "v", " ">>)
      [] j % 4 = 1 -> Bytes(<<"\t", "w">>)
      [] j % 4 = 2 -> I64(-12)
      [] j % 4 = 3 -> F64(15)

\* the flat list of len elements starting at pair o (odd lengths included)
FlatList(o, len) ==
    Slice([i \in 1..len |-> IF i % 2 = 1 THEN PairKey(o + (i - 1) \div 2)
                                        ELSE PairVal(o + (i - 1) \div 2)])

FlatLists ==
    {FlatList(0, len) : len \in 0..(2 * MaxKV)} \cup {FlatList(2, 2 * n) : n \in 1..MaxKV}

QTY == <<"q", "t", "y">>
AttrMap == SMap([k \in {QTY} |-> Str(<<"3", " ">>)])
AttrGeneric == GMap(<<<<Str(<<" ", "q", "t", "y">>), I64(3)>>, <<I64(7), F64(-5)>>>>)

Payloads == FlatLists \cup {AttrMap, I64(42)}

DocId(i) == Str(<<"d", "o", "c", ":">> \o FormatInt(i))

\* [count, id1, p1, id2, p2, ...] with an optional identifier left over
LegacyRest(ps, trailing) ==
    [i \in 1..(2 * Len(ps) + trailing) |->
        IF i % 2 = 1 THEN DocId((i + 1) \div 2) ELSE ps[i \div 2]]

LegacyRests ==
    UNION {{LegacyRest(ps, tr) : ps \in [1..n -> Payloads], tr \in {0, 1}} : n \in 0..MaxPairs}

Counts == {I64(n) : n \in (-1)..(MaxPairs + 1)} \cup {Str(<<"2">>)}

LegacyArrays == {<<>>} \cup {<<c>> \o r : c \in Counts, r \in LegacyRests}

\* result entries of the keyed-map shape
XKEY == <<"x">>
EntryPayloads == {AttrMap, AttrGeneric, NilV}
EntryMaps ==
    {[k \in {XKEY} |-> Str(<<" ", "1">>)]}
    \cup {[k \in {XKEY, EXTRA_ATTRIBUTES} |-> IF k = XKEY THEN I64(5) ELSE p] : p \in EntryPayloads}
    \cup {[k \in {XKEY, VALUES} |-> IF k = XKEY THEN I64(5) ELSE FlatList(0, 2)]}
    \cup {[k \in {VALUES, EXTRA_ATTRIBUTES} |-> IF k = VALUES THEN FlatList(2, 2) ELSE AttrMap]}

\* a generic-keyed mapping with the entries of m, its keys padded with a blank
RECURSIVE GenericPairs(_, _)
GenericPairs(m, ks) ==
    IF ks = {} THEN <<>>
    ELSE LET k == CHOOSE x \in ks : TRUE
         IN  <<<<Str(<<" ">> \o k), m[k]>>>> \o GenericPairs(m, ks \ {k})
GenericOf(m) == GMap(GenericPairs(m, DOMAIN m))

\* two keys of a generic mapping that coerce to the same string
Colliding(a, b) ==
    GMap(<<<<Str(EXTRA_ATTRIBUTES), a>>, <<Str(<<" ">> \o EXTRA_ATTRIBUTES), b>>>>)

Entries ==
    {SMap(m) : m \in EntryMaps} \cup {GenericOf(m) : m \in EntryMaps}
    \cup {Colliding(AttrMap, FlatList(0, 2)), Colliding(FlatList(0, 2), AttrMap), Str(<<"h">>)}

ResultSeqs == UNION {[1..n -> Entries] : n \in 0..MaxResults}

TOTAL_RESULTS == <<"t", "o", "t", "a", "l", "_", "r", "e", "s", "u", "l", "t", "s">>
KeyedMaps ==
    {SMap([k \in {RESULTS, TOTAL_RESULTS} |-> IF k = RESULTS THEN Slice(rs) ELSE I64(9)]) :
             rs \in ResultSeqs}
    \cup {GMap(<<<<Str(<<" ">> \o RESULTS), Slice(rs)>>, <<I64(1), NilV>>>>) : rs \in ResultSeqs}
    \cup {SMap([k \in {TOTAL_RESULTS} |-> I64(0)]),
          SMap([k \in {<<" ">> \o RESULTS} |-> Slice(<<>>)]),
          SMap([k \in {RESULTS} |-> Str(<<"n", "o">>)]),
          SMap([k \in {RESULTS} |-> NilV]),
          SMap(EmptyMap), GMap(<<>>)}

Replies ==
    {Slice(a) : a \in LegacyArrays} \cup KeyedMaps
    \cup {SliceCmd(<<>>), SliceCmd(<<I64(1), DocId(1), FlatList(0, 2)>>)}
    \cup {Str(<<"O", "K">>), I64(0), NilV}

(***************************************************************************)
(* scan.DecodeMaps, one action per statement.                              *)
(***************************************************************************)
DecodeStart ==
    /\ raw \in Replies
    /\ dpc = "normalize"
    /\ reply = NilV
    /\ total = 0
    /\ hits = <<>>
    /\ out = <<>>
    /\ idx = 0
    /\ res = NoRes

\* reply, err := normalize(raw); if err != nil { return nil, err }
DecodeNormalize ==
    /\ dpc = "normalize"
    /\ LET n == normalize(raw)
       IN  IF n.err # ""
           THEN /\ res' = Failed(n.err)
                /\ dpc' = "done"
                /\ UNCHANGED reply
           ELSE /\ reply' = n.v
                /\ dpc' = "extract"
                /\ UNCHANGED res
    /\ UNCHANGED <<raw, total, hits, out, idx>>
    /\ UNCHANGED <<qvars, bvars, tvars, pvars>>

\* total, hits, err := extractHits(reply); if err != nil { return nil, err }
\* out := make([]map[string]string, total)
DecodeExtract ==
    /\ dpc = "extract"
    /\ LET e == extractHits(reply)
       IN  CASE e.st = "panic" ->
                  /\ res' = Panicked(e.err)
                  /\ dpc' = "done"
                  /\ UNCHANGED <<total, hits, out>>
             [] e.st = "err" ->
                  /\ res' = Failed(e.err)
                  /\ dpc' = "done"
                  /\ UNCHANGED <<total, hits, out>>
             [] e.st = "ok" ->
                  /\ total' = e.total
                  /\ hits' = e.hits
                  /\ out' = [i \in 1..e.total |-> NilRow]
                  /\ dpc' = "loop"
                  /\ UNCHANGED res
    /\ UNCHANGED <<raw, reply, idx>>
    /\ UNCHANGED <<qvars, bvars, tvars, pvars>>

\* one iteration of `for i, kv := range hits`
DecodeRow ==
    /\ dpc = "loop"
    /\ idx < Len(hits)
    /\ LET r == toStrMap(hits[idx + 1])
       IN  IF r.err # ""
           THEN /\ res' = Failed(r.err)
                /\ dpc' = "done"
                /\ UNCHANGED <<out, idx>>
           ELSE IF idx >= Len(out)
           THEN /\ res' = Panicked("index out of range")
                /\ dpc' = "done"
                /\ UNCHANGED <<out, idx>>
           ELSE /\ out' = [out EXCEPT ![idx + 1] = Row(r.m)]
                /\ idx' = idx + 1
                /\ UNCHANGED <<res, dpc>>
    /\ UNCHANGED <<raw, reply, total, hits>>
    /\ UNCHANGED <<qvars, bvars, tvars, pvars>>

\* return out, nil
DecodeReturn ==
    /\ dpc = "loop"
    /\ idx = Len(hits)
    /\ res' = Rows(out)
    /\ dpc' = "done"
    /\ UNCHANGED <<raw, reply, total, hits, out, idx>>
    /\ UNCHANGED <<qvars, bvars, tvars, pvars>>

NextDecode ==
    \/ DecodeNormalize
    \/ DecodeExtract
    \/ DecodeRow
    \/ DecodeReturn

(***************************************************************************)
(* query/expr.go: the expression nodes.  NilExpr is the nil Expr interface. *)
(***************************************************************************)
NilExpr == [k |-> "nil"]
Eq(f, v) == [k |-> "eq", f |-> f, v |-> v]
In(f, vs) == [k |-> "in", f |-> f, vs |-> vs]
Range(f, lo, hi, inclusive) == [k |-> "rng", f |-> f, lo |-> lo, hi |-> hi, inc |-> inclusive]
And(xs) == [k |-> "and", xs |-> xs]
Or(xs) == [k |-> "or", xs |-> xs]
Not(x) == [k |-> "not", x |-> x]
MatchAll == [k |-> "matchAll"]

\* field without the HasPrefix test
field_always(f) == <<"@">> \o f

field(f) == IF f # <<>> /\ Head(f) = "@" THEN f ELSE <<"@">> \o f

(***************************************************************************)
(* query/compile.go.  A compile method yields the text it appends to the   *)
(* strings.Builder, or panics (a method call on a nil Expr).               *)
(***************************************************************************)
Wrote(s) == [panic |-> FALSE, s |-> s]
NilDeref == [panic |-> TRUE, s |-> <<>>]

\* inValues writing the separator after every value
RECURSIVE inValues_trailing(_, _)
inValues_trailing(vs, i) ==
    IF i > Len(vs) THEN <<>>
    ELSE Sprint(vs[i]) \o <<"|">> \o inValues_trailing(vs, i + 1)

\* for i, v := range n.vs { if i > 0 { sb.WriteByte('|') }; fmt.Fprint(sb, v) }
RECURSIVE inValues(_, _)
inValues(vs, i) ==
    IF i > Len(vs) THEN <<>>
    ELSE (IF i > 1 THEN <<"|">> ELSE <<>>) \o Sprint(vs[i]) \o inValues(vs, i + 1)

RECURSIVE compile(_), groupItems(_, _, _)

\* the loop of group: for i, x := range xs { if i > 0 { sb.WriteString(sep) }; x.compile(sb) }
groupItems(xs, sep, i) ==
    IF i > Len(xs) THEN Wrote(<<>>)
    ELSE LET c == compile(xs[i])
         IN  IF c.panic THEN NilDeref
             ELSE LET r == groupItems(xs, sep, i + 1)
                  IN  IF r.panic THEN NilDeref
                      ELSE Wrote((IF i > 1 THEN sep ELSE <<>>) \o c.s \o r.s)

\* group without its own parentheses
group_noParens(xs, sep) ==
    LET r == groupItems(xs, sep, 1)
    IN  IF r.panic THEN NilDeref ELSE Wrote(r.s)

group(xs, sep) ==
    LET r == groupItems(xs, sep, 1)
    IN  IF r.panic THEN NilDeref ELSE Wrote(<<"(">> \o r.s \o <<")">>)

compile(e) ==
    CASE e.k = "nil" -> NilDeref
      [] e.k = "eq" -> Wrote(field(e.f) \o <<":", "{">> \o Sprint(e.v) \o <<"}">>)
      [] e.k = "in" -> Wrote(field(e.f) \o <<":", "{">> \o inValues(e.vs, 1) \o <<"}">>)
      [] e.k = "rng" ->
            LET left == IF e.inc THEN <<"[">> ELSE <<"(">>
                right == IF e.inc THEN <<"]">> ELSE <<")">>
            IN  Wrote(field(e.f) \o <<":">> \o left \o Sprint(e.lo) \o <<" ">>
                      \o Sprint(e.hi) \o right)
      [] e.k = "and" -> group(e.xs, <<" ">>)
      [] e.k = "or" -> group(e.xs, <<"|">>)
      [] e.k = "not" ->
            LET c == compile(e.x)
            IN  IF c.panic THEN NilDeref ELSE Wrote(<<"-", "(">> \o c.s \o <<")">>)
      [] e.k = "matchAll" -> Wrote(<<"*">>)

Compile(e) == compile(e)

(***************************************************************************)
(* query/builder.go                                                        *)
(***************************************************************************)
DefaultLimit == 10000

IDX == <<"i", "d", "x">>

NewSearch(index) ==
    [idx |-> index, where |-> NilExpr, returnFields |-> <<>>, sortField |-> <<>>,
     dir |-> <<>>, offset |-> 0, limit |-> DefaultLimit, withTotal |-> FALSE,
     executor |-> "nil"]

NewAggregate(index) ==
    [idx |-> index, where |-> NilExpr, groups |-> <<>>, reducers |-> <<>>,
     offset |-> 0, limit |-> DefaultLimit, executor |-> "nil"]

FT_SEARCH == <<"F", "T", ".", "S", "E", "A", "R", "C", "H">>
FT_AGGREGATE == <<"F", "T", ".", "A", "G", "G", "R", "E", "G", "A", "T", "E">>
RETURN == <<"R", "E", "T", "U", "R", "N">>
SORTBY == <<"S", "O", "R", "T", "B", "Y">>
LIMIT == <<"L", "I", "M", "I", "T">>
GROUPBY == <<"G", "R", "O", "U", "P", "B", "Y">>
REDUCE == <<"R", "E", "D", "U", "C", "E">>
COUNT == <<"C", "O", "U", "N", "T">>
AS == <<"A", "S">>

Lower == <<"a", "b", "c", "d", "e", "f", "g", "h", "i", "j", "k", "l", "m",
           "n", "o", "p", "q", "r", "s", "t", "u", "v", "w", "x", "y", "z">>
Upper == <<"A", "B", "C", "D", "E", "F", "G", "H", "I", "J", "K", "L", "M",
           "N", "O", "P", "Q", "R", "S", "T", "U", "V", "W", "X", "Y", "Z">>
Fold(c) == IF \E i \in 1..26 : Lower[i] = c THEN Upper[CHOOSE i \in 1..26 : Lower[i] = c] ELSE c

\* strings.EqualFold on ASCII text
EqualFold(a, b) == Len(a) = Len(b) /\ \A i \in 1..Len(a) : Fold(a[i]) = Fold(b[i])

\* queryOf without the comparison with MatchAll()
queryOf_onlyNil(where) ==
    IF where = NilExpr THEN Wrote(<<"*">>)
    ELSE LET c == Compile(where)
         IN  IF c.panic THEN NilDeref ELSE Wrote(<<"(">> \o c.s \o <<")">>)

\* the query element: "*" or "(" + Compile(b.where) + ")"
queryOf(where) ==
    IF where = NilExpr \/ where = MatchAll THEN Wrote(<<"*">>)
    ELSE LET c == Compile(where)
         IN  IF c.panic THEN NilDeref ELSE Wrote(<<"(">> \o c.s \o <<")">>)

RECURSIVE reduceArgs(_)
reduceArgs(rs) ==
    IF rs = <<>> THEN <<>>
    ELSE LET r == Head(rs)
         IN  (IF EqualFold(r.fn, COUNT)
              THEN <<REDUCE, r.fn, <<"0">>, AS, r.alias>>
              ELSE <<REDUCE, r.fn, <<"1">>, <<"@">> \o r.field, AS, r.alias>>)
             \o reduceArgs(Tail(rs))

NoArgs == [panic |-> FALSE, args |-> <<>>, err |-> "none"]
Args(a) == [panic |-> FALSE, args |-> a, err |-> "nil"]
ArgsPanic == [panic |-> TRUE, args |-> <<>>, err |-> "none"]

\* SearchBuilder.RawArgs writing the SORTBY clause before the RETURN clause
SearchRawArgs_sortFirst(b) ==
    LET q == queryOf(b.where)
    IN  IF q.panic THEN ArgsPanic
        ELSE Args(<<FT_SEARCH, b.idx, q.s>>
                  \o (IF b.sortField # <<>> THEN <<SORTBY, b.sortField, b.dir>> ELSE <<>>)
                  \o (IF Len(b.returnFields) > 0
                      THEN <<RETURN, FormatInt(Len(b.returnFields))>> \o b.returnFields
                      ELSE <<>>)
                  \o <<LIMIT, FormatInt(b.offset), FormatInt(b.limit)>>)

SearchRawArgs(b) ==
    LET q == queryOf(b.where)
    IN  IF q.panic THEN ArgsPanic
        ELSE Args(<<FT_SEARCH, b.idx, q.s>>
                  \o (IF Len(b.returnFields) > 0
                      THEN <<RETURN, FormatInt(Len(b.returnFields))>> \o b.returnFields
                      ELSE <<>>)
                  \o (IF b.sortField # <<>> THEN <<SORTBY, b.sortField, b.dir>> ELSE <<>>)
                  \o <<LIMIT, FormatInt(b.offset), FormatInt(b.limit)>>)

AggregateRawArgs(b) ==
    LET q == queryOf(b.where)
    IN  IF q.panic THEN ArgsPanic
        ELSE Args(<<FT_AGGREGATE, b.idx, q.s>>
                  \o <<GROUPBY, FormatInt(Len(b.groups))>>
                  \o [i \in 1..Len(b.groups) |-> b.groups[i].raw]
                  \o reduceArgs(b.reducers)
                  \o <<LIMIT, FormatInt(b.offset), FormatInt(b.limit)>>)

(***************************************************************************)
(* A caller of package query: it builds one expression with the public     *)
(* constructors, compiles it, may hand it to a builder and asks a builder   *)
(* for its argument vector.                                                *)
(***************************************************************************)
Fields == {<<>>, <<"f">>, <<"@", "f">>}
EqVals == {Str(<<" ", "a">>), IntV(12), F64(15), NilV}
InVal(j) == IF j % 2 = 0 THEN Str(<<"a">>) ELSE I64(-3)
\* value lists of every length up to MaxVals, starting with either value
InLists == {[i \in 1..n |-> InVal(o + i)] : o \in {0, 1}, n \in 0..MaxVals}
\* the leaves the caller nests inside combinators
NestLeaves == {NilExpr, MatchAll, Eq(<<"f">>, Str(<<" ", "a">>)),
               In(<<"@", "f">>, <<I64(-3), Str(<<"a">>)>>),
               Range(<<"f">>, IntV(1), IntV(20), TRUE)}
RangeBounds == {<<IntV(1), IntV(20)>>, <<Str(<<"-", "i", "n", "f">>), F64(25)>>}

NoCompiled == [done |-> FALSE, panic |-> FALSE, s |-> <<>>]

QueryStart ==
    /\ expr = NilExpr
    /\ depth = 0
    /\ compiled = NoCompiled
    /\ sb = NewSearch(IDX)
    /\ ab = NewAggregate(IDX)
    /\ args = [of |-> "none", r |-> NoArgs]

\* the caller is still building its expression
Building ==
    /\ ~compiled.done
    /\ args.of = "none"
    /\ sb.where = NilExpr
    /\ ab.where = NilExpr

\* nothing built yet: the caller starts with one leaf
Fresh == Building /\ expr = NilExpr

\* the caller wraps combinators and a few leaves into combinators
Nestable == Building /\ depth < MaxDepth /\ (depth > 0 \/ expr \in NestLeaves)

NewEq ==
    /\ Fresh
    /\ \E f \in Fields, v \in EqVals : expr' = Eq(f, v)
    /\ depth' = 0
    /\ UNCHANGED <<compiled, sb, ab, args>>
    /\ UNCHANGED <<dvars, bvars, tvars, pvars>>

NewIn ==
    /\ Fresh
    /\ \E f \in Fields \ {<<>>}, vs \in InLists : expr' = In(f, vs)
    /\ depth' = 0
    /\ UNCHANGED <<compiled, sb, ab, args>>
    /\ UNCHANGED <<dvars, bvars, tvars, pvars>>

NewRange ==
    /\ Fresh
    /\ \E f \in Fields \ {<<>>}, b \in RangeBounds, inclusive \in BOOLEAN :
         expr' = Range(f, b[1], b[2], inclusive)
    /\ depth' = 0
    /\ UNCHANGED <<compiled, sb, ab, args>>
    /\ UNCHANGED <<dvars, bvars, tvars, pvars>>

NewMatchAll ==
    /\ Fresh
    /\ expr' = MatchAll
    /\ depth' = 0
    /\ UNCHANGED <<compiled, sb, ab, args>>
    /\ UNCHANGED <<dvars, bvars, tvars, pvars>>

\* the argument lists of And / Or: up to MaxArity times the expression built
\* so far, one of them possibly replaced by MatchAll
SubLists ==
    {[i \in 1..n |-> IF i = m THEN MatchAll ELSE expr] : n \in 0..MaxArity, m \in 0..MaxArity}

NewAnd ==
    /\ Nestable
    /\ \E xs \in SubLists : expr' = And(xs)
    /\ depth' = depth + 1
    /\ UNCHANGED <<compiled, sb, ab, args>>
    /\ UNCHANGED <<dvars, bvars, tvars, pvars>>

NewOr ==
    /\ Nestable
    /\ \E xs \in SubLists : expr' = Or(xs)
    /\ depth' = depth + 1
    /\ UNCHANGED <<compiled, sb, ab, args>>
    /\ UNCHANGED <<dvars, bvars, tvars, pvars>>

NewNot ==
    /\ Nestable
    /\ expr' = Not(expr)
    /\ depth' = depth + 1
    /\ UNCHANGED <<compiled, sb, ab, args>>
    /\ UNCHANGED <<dvars, bvars, tvars, pvars>>

CallCompile ==
    /\ Building
    /\ LET c == Compile(expr)
       IN  compiled' = [done |-> TRUE, panic |-> c.panic, s |-> c.s]
    /\ UNCHANGED <<expr, depth, sb, ab, args>>
    /\ UNCHANGED <<dvars, bvars, tvars, pvars>>

\* func (b *SearchBuilder) Where(e Expr)
SearchWhere ==
    /\ Building
    /\ sb' = [sb EXCEPT !.where = expr]
    /\ UNCHANGED <<expr, depth, compiled, ab, args>>
    /\ UNCHANGED <<dvars, bvars, tvars, pvars>>

\* func (b *AggregateBuilder) Where(e Expr)
AggregateWhere ==
    /\ Building
    /\ ab' = [ab EXCEPT !.where = expr]
    /\ UNCHANGED <<expr, depth, compiled, sb, args>>
    /\ UNCHANGED <<dvars, bvars, tvars, pvars>>

\* asked of a new builder, or of the builder that was given the filter
CallSearchRawArgs ==
    /\ Fresh \/ sb.where # NilExpr
    /\ args.of = "none"
    /\ args' = [of |-> "search", r |-> SearchRawArgs(sb)]
    /\ UNCHANGED <<expr, depth, compiled, sb, ab>>
    /\ UNCHANGED <<dvars, bvars, tvars, pvars>>

CallAggregateRawArgs ==
    /\ Fresh \/ ab.where # NilExpr
    /\ args.of = "none"
    /\ args' = [of |-> "aggregate", r |-> AggregateRawArgs(ab)]
    /\ UNCHANGED <<expr, depth, compiled, sb, ab>>
    /\ UNCHANGED <<dvars, bvars, tvars, pvars>>

NextQuery ==
    \/ NewEq
    \/ NewIn
    \/ NewRange
    \/ NewMatchAll
    \/ NewAnd
    \/ NewOr
    \/ NewNot
    \/ CallCompile
    \/ SearchWhere
    \/ AggregateWhere
    \/ CallSearchRawArgs
    \/ CallAggregateRawArgs

(***************************************************************************)
(* query/group.go                                                          *)
(***************************************************************************)
\* By prefixing its field unconditionally
By_always(f) == [raw |-> <<"@">> \o f, alias |-> <<>>]

By(f) == [raw |-> IF f # <<>> /\ Head(f) = "@" THEN f ELSE <<"@">> \o f, alias |-> <<>>]
ByExpr(e) == [raw |-> e, alias |-> <<>>]
As(g, alias) == [g EXCEPT !.alias = alias]

(***************************************************************************)
(* query/builder.go: the mutators, as functions of the builder's state.    *)
(***************************************************************************)
ASC == <<"A", "S", "C">>
DESC == <<"D", "E", "S", "C">>

SearchBuilder_Where(b, e) == [b EXCEPT !.where = e]

\* append([]string{}, fs...) allocates: the builder's slice never has the
\* backing array of the caller's
selectAliases_noCopy == TRUE
selectAliases == FALSE

SearchBuilder_Select(b, fs) == [b EXCEPT !.returnFields = fs]
SearchBuilder_SortBy(b, f, d) == [b EXCEPT !.sortField = f, !.dir = d]

\* Limit that ignores a zero limit
SearchBuilder_Limit_keepDefault(b, off, lim) ==
    [b EXCEPT !.offset = off, !.limit = IF lim = 0 THEN b.limit ELSE lim]

SearchBuilder_Limit(b, off, lim) == [b EXCEPT !.offset = off, !.limit = lim]
SearchBuilder_WithTotal(b) == [b EXCEPT !.withTotal = TRUE]
SearchBuilder_Using(b, ex) == [b EXCEPT !.executor = ex]

AggregateBuilder_Where(b, e) == [b EXCEPT !.where = e]
AggregateBuilder_GroupBy(b, keys) == [b EXCEPT !.groups = keys]

\* Reduce keeping one reducer per function name
AggregateBuilder_Reduce_perFn(b, fn, fld, as) ==
    [b EXCEPT !.reducers =
        SelectSeq(b.reducers, LAMBDA r : r.fn # fn) \o <<[fn |-> fn, field |-> fld, alias |-> as]>>]

AggregateBuilder_Reduce(b, fn, fld, as) ==
    [b EXCEPT !.reducers = Append(b.reducers, [fn |-> fn, field |-> fld, alias |-> as])]
AggregateBuilder_Limit(b, off, lim) == [b EXCEPT !.offset = off, !.limit = lim]
AggregateBuilder_Using(b, ex) == [b EXCEPT !.executor = ex]

(***************************************************************************)
(* A mutator call as a value: an entry of the call history, and the body   *)
(* of an option's hook (repository/option.go).                             *)
(***************************************************************************)
CallWhere(e) == [op |-> "Where", e |-> e]
CallSelect(fs) == [op |-> "Select", fs |-> fs]
CallSortBy(f, d) == [op |-> "SortBy", f |-> f, d |-> d]
CallLimit(off, lim) == [op |-> "Limit", off |-> off, lim |-> lim]
CallWithTotal == [op |-> "WithTotal"]
CallUsing(ex) == [op |-> "Using", ex |-> ex]
CallGroupBy(keys) == [op |-> "GroupBy", keys |-> keys]
CallReduce(fn, fld, as) == [op |-> "Reduce", fn |-> fn, field |-> fld, alias |-> as]

\* the call c made on a SearchBuilder
SearchCall(b, c) ==
    CASE c.op = "Where" -> SearchBuilder_Where(b, c.e)
      [] c.op = "Select" -> SearchBuilder_Select(b, c.fs)
      [] c.op = "SortBy" -> SearchBuilder_SortBy(b, c.f, c.d)
      [] c.op = "Limit" -> SearchBuilder_Limit(b, c.off, c.lim)
      [] c.op = "WithTotal" -> SearchBuilder_WithTotal(b)
      [] c.op = "Using" -> SearchBuilder_Using(b, c.ex)

\* the call c made on an AggregateBuilder
AggregateCall(b, c) ==
    CASE c.op = "Where" -> AggregateBuilder_Where(b, c.e)
      [] c.op = "GroupBy" -> AggregateBuilder_GroupBy(b, c.keys)
      [] c.op = "Reduce" -> AggregateBuilder_Reduce(b, c.fn, c.field, c.alias)
      [] c.op = "Limit" -> AggregateBuilder_Limit(b, c.off, c.lim)
      [] c.op = "Using" -> AggregateBuilder_Using(b, c.ex)

(***************************************************************************)
(* scan.DecodeMaps as one call, and Run (query/builder.go) around the      *)
(* executor's Do.                                                          *)
(***************************************************************************)
DecodeMaps(v) ==
    LET n == normalize(v)
    IN  IF n.err # "" THEN Failed(n.err)
        ELSE LET e == extractHits(n.v)
             IN  IF e.st = "panic" THEN Panicked(e.err)
                 ELSE IF e.st = "err" THEN Failed(e.err)
                 ELSE IF \E i \in 1..Len(e.hits) : toStrMap(e.hits[i]).err # ""
                 THEN Failed("scan: unsupported kv type")
                 ELSE Rows([i \in 1..Len(e.hits) |-> Row(toStrMap(e.hits[i]).m)])

ErrNoExecutor == "query: executor not set (call Using())"

\* Run calling RawArgs and Do without looking at b.executor
RunCall_unchecked(executor, rawArgs) ==
    IF rawArgs.panic
    THEN [returns |-> TRUE, out |-> Panicked("nil Expr"), do |-> <<>>]
    ELSE IF executor = "nil"
    THEN [returns |-> TRUE, out |-> Panicked("nil executor"), do |-> <<>>]
    ELSE [returns |-> FALSE, out |-> NoRes, do |-> <<rawArgs.args>>]

\* Run up to b.executor.Do: it returns at once, panics inside RawArgs, or
\* calls Do with the argument vector
RunCall(executor, rawArgs) ==
    IF executor = "nil"
    THEN [returns |-> TRUE, out |-> Failed(ErrNoExecutor), do |-> <<>>]
    ELSE IF rawArgs.panic
    THEN [returns |-> TRUE, out |-> Panicked("nil Expr"), do |-> <<>>]
    ELSE [returns |-> FALSE, out |-> NoRes, do |-> <<rawArgs.args>>]

\* Run decoding the reply whatever error Do returned
RunReturn_ignoreErr(r, err) == [out |-> DecodeMaps(r), decodes |-> 1]

\* Run after Do returned (raw, err)
RunReturn(r, err) ==
    IF err # "" THEN [out |-> Failed(err), decodes |-> 0]
    ELSE [out |-> DecodeMaps(r), decodes |-> 1]

(***************************************************************************)
(* A builder session: a caller owns one builder, calls its mutators, then  *)
(* asks for the argument vector or runs the builder.  The executor is the  *)
(* environment: Do fails with an error or returns a reply.                 *)
(***************************************************************************)
MaxCalls == 3      \* mutator calls of a session
MaxFields == 2     \* fields of a Select
MaxKeys == 2       \* keys of a GroupBy

WhereExprs == {Eq(<<"f">>, IntV(12)), Not(NilExpr)}
FieldName(i) == IF i % 2 = 1 THEN <<"a">> ELSE <<"@", "b">>
FieldLists == {[i \in 1..n |-> FieldName(i)] : n \in 0..MaxFields}
ZFIELD == <<"z">>
Sorts == {<<<<"f">>, DESC>>, <<<<>>, ASC>>}
Limits == {<<5, 20>>, <<0, 0>>}
CITY == <<"c">>
GroupKeyOf(i) ==
    CASE i % 3 = 1 -> By(<<"@">> \o CITY)
      [] i % 3 = 2 -> As(ByExpr(<<"u", "(", "@", "n", ")">>), <<"u">>)
      [] i % 3 = 0 -> By(CITY)
KeyLists == {[i \in 1..n |-> GroupKeyOf(i)] : n \in 0..MaxKeys} \cup {<<GroupKeyOf(3)>>}
SUM == <<"S", "U", "M">>
AVG == <<"A", "V", "G">>
Reducers == {<<COUNT, <<>>, <<"n">>>>, <<<<"c", "o", "u", "n", "t">>, <<"x">>, <<"m">>>>,
             <<SUM, QTY, <<"s">>>>, <<AVG, <<"@">> \o QTY, <<"a">>>>}
ExecErrors == {"driver: timeout", "driver: connection refused"}
ExecReplies == {Slice(<<I64(1), DocId(1), FlatList(0, 2)>>), Str(<<"O", "K">>)}
ExecOutcomes ==
    {[r |-> NilV, err |-> e] : e \in ExecErrors} \cup {[r |-> v, err |-> ""] : v \in ExecReplies}
Pending == [r |-> NilV, err |-> "pending"]

BuilderIdle ==
    /\ kind = "none"
    /\ hist = <<>>
    /\ fsBuf = <<>>
    /\ shared = FALSE
    /\ rawLog = <<>>
    /\ rpc = "idle"
    /\ ran = NoRes
    /\ doLog = <<>>
    /\ decoded = 0
    /\ opts = <<>>

\* b := NewSearch(idx) or b := NewAggregate(idx)
BuilderStart ==
    /\ kind \in {"search", "aggregate"}
    /\ hist = <<>>
    /\ fsBuf = <<>>
    /\ shared = FALSE
    /\ rawLog = <<>>
    /\ rpc = "idle"
    /\ ran = NoRes
    /\ doLog = <<>>
    /\ decoded = 0
    /\ opts = <<>>

\* the caller is still configuring builder k
Mutable(k) ==
    /\ kind = k
    /\ Len(hist) < MaxCalls
    /\ rawLog = <<>>
    /\ rpc = "idle"

\* a step that changes the SearchBuilder and the history only
SbStep(c) ==
    /\ sb' = SearchCall(sb, c)
    /\ hist' = Append(hist, c)
    /\ UNCHANGED <<kind, rawLog, rpc, ran, doLog, decoded, opts>>
    /\ UNCHANGED <<expr, depth, compiled, ab, args>>
    /\ UNCHANGED <<dvars, tvars, pvars>>

\* a step that changes the AggregateBuilder and the history only
AbStep(c) ==
    /\ ab' = AggregateCall(ab, c)
    /\ hist' = Append(hist, c)
    /\ UNCHANGED <<kind, fsBuf, shared, rawLog, rpc, ran, doLog, decoded, opts>>
    /\ UNCHANGED <<expr, depth, compiled, sb, args>>
    /\ UNCHANGED <<dvars, tvars, pvars>>

SbWhere ==
    /\ Mutable("search")
    /\ \E e \in WhereExprs : SbStep(CallWhere(e))
    /\ UNCHANGED <<fsBuf, shared>>

\* b.Select(fs...) with the caller's slice fs
SbSelect ==
    /\ Mutable("search")
    /\ \E fs \in FieldLists :
         /\ fsBuf' = fs
         /\ SbStep(CallSelect(fs))
    /\ shared' = selectAliases

\* the caller overwrites fs[0] after Select returned
CallerWrite ==
    /\ kind = "search"
    /\ rawLog = <<>>
    /\ rpc = "idle"
    /\ fsBuf # <<>>
    /\ fsBuf[1] # ZFIELD
    /\ fsBuf' = [fsBuf EXCEPT ![1] = ZFIELD]
    /\ sb' = IF shared THEN [sb EXCEPT !.returnFields = fsBuf'] ELSE sb
    /\ UNCHANGED <<kind, hist, shared, rawLog, rpc, ran, doLog, decoded, opts>>
    /\ UNCHANGED <<expr, depth, compiled, ab, args>>
    /\ UNCHANGED <<dvars, tvars, pvars>>

SbSortBy ==
    /\ Mutable("search")
    /\ \E s \in Sorts : SbStep(CallSortBy(s[1], s[2]))
    /\ UNCHANGED <<fsBuf, shared>>

SbLimit ==
    /\ Mutable("search")
    /\ \E l \in Limits : SbStep(CallLimit(l[1], l[2]))
    /\ UNCHANGED <<fsBuf, shared>>

SbWithTotal ==
    /\ Mutable("search")
    /\ SbStep(CallWithTotal)
    /\ UNCHANGED <<fsBuf, shared>>

SbUsing ==
    /\ Mutable("search")
    /\ SbStep(CallUsing("ex"))
    /\ UNCHANGED <<fsBuf, shared>>

AbWhere ==
    /\ Mutable("aggregate")
    /\ \E e \in WhereExprs : AbStep(CallWhere(e))

AbGroupBy ==
    /\ Mutable("aggregate")
    /\ \E keys \in KeyLists : AbStep(CallGroupBy(keys))

AbReduce ==
    /\ Mutable("aggregate")
    /\ \E r \in Reducers : AbStep(CallReduce(r[1], r[2], r[3]))

AbLimit ==
    /\ Mutable("aggregate")
    /\ \E l \in Limits : AbStep(CallLimit(l[1], l[2]))

AbUsing ==
    /\ Mutable("aggregate")
    /\ AbStep(CallUsing("ex"))

\* RawArgs is asked once before Run and once after it
Inspectable(k) ==
    /\ kind = k
    /\ rpc # "do"
    /\ \A i \in 1..Len(rawLog) : rawLog[i].afterRun # (rpc = "done")

Inspect(k, r) ==
    /\ args' = [of |-> k, r |-> r]
    /\ rawLog' = Append(rawLog, [afterRun |-> rpc = "done", r |-> r])
    /\ UNCHANGED <<kind, hist, fsBuf, shared, rpc, ran, doLog, decoded, opts>>
    /\ UNCHANGED <<expr, depth, compiled, sb, ab>>
    /\ UNCHANGED <<dvars, tvars, pvars>>

SbRawArgs ==
    /\ Inspectable("search")
    /\ Inspect("search", SearchRawArgs(sb))

AbRawArgs ==
    /\ Inspectable("aggregate")
    /\ Inspect("aggregate", AggregateRawArgs(ab))

\* Run up to the call of b.executor.Do
Running(c) ==
    /\ rpc = "idle"
    /\ IF c.returns
       THEN /\ ran' = c.out
            /\ rpc' = "done"
            /\ UNCHANGED doLog
       ELSE /\ doLog' = Append(doLog, [args |-> c.do[1], ret |-> Pending])
            /\ rpc' = "do"
            /\ UNCHANGED ran
    /\ UNCHANGED <<kind, hist, fsBuf, shared, rawLog, decoded, opts>>
    /\ UNCHANGED <<expr, depth, compiled, sb, ab, args>>
    /\ UNCHANGED <<dvars, tvars, pvars>>

SbRun ==
    /\ kind = "search"
    /\ Running(RunCall(sb.executor, SearchRawArgs(sb)))

AbRun ==
    /\ kind = "aggregate"
    /\ Running(RunCall(ab.executor, AggregateRawArgs(ab)))

\* Do returns an error or a reply, and Run finishes
ExecutorReturns ==
    /\ rpc = "do"
    /\ \E o \in ExecOutcomes :
         LET r == RunReturn(o.r, o.err)
         IN  /\ ran' = r.out
             /\ decoded' = decoded + r.decodes
             /\ doLog' = [doLog EXCEPT ![Len(doLog)].ret = o]
    /\ rpc' = "done"
    /\ UNCHANGED <<kind, hist, fsBuf, shared, rawLog, opts>>
    /\ UNCHANGED <<expr, depth, compiled, sb, ab, args>>
    /\ UNCHANGED <<dvars, tvars, pvars>>

NextBuilder ==
    \/ SbWhere
    \/ SbSelect
    \/ CallerWrite
    \/ SbSortBy
    \/ SbLimit
    \/ SbWithTotal
    \/ SbUsing
    \/ AbWhere
    \/ AbGroupBy
    \/ AbReduce
    \/ AbLimit
    \/ AbUsing
    \/ SbRawArgs
    \/ AbRawArgs

\* a session that runs its builder: it sets a filter, a projection or group
\* keys, binds the executor or not, and calls Run and RawArgs
NextRun ==
    \/ SbWhere
    \/ SbSelect
    \/ SbUsing
    \/ AbWhere
    \/ AbGroupBy
    \/ AbUsing
    \/ SbRawArgs
    \/ AbRawArgs
    \/ SbRun
    \/ AbRun
    \/ ExecutorReturns

(***************************************************************************)
(* repository/option.go.  A hook is the mutator call its closure makes;    *)
(* NoHook is the nil function.                                             *)
(***************************************************************************)
NoHook == [op |-> "nil"]
optFunc(s, a) == [search |-> s, agg |-> a]

applySearch(o, b) == IF o.search # NoHook THEN SearchCall(b, o.search) ELSE b
applyAgg(o, b) == IF o.agg # NoHook THEN AggregateCall(b, o.agg) ELSE b

\* Select with a hook for the aggregate builder too
Select_limitsAgg(fields) == optFunc(CallSelect(fields), CallLimit(0, Len(fields)))

Select(fields) == optFunc(CallSelect(fields), NoHook)
Limit(offset, limit) == optFunc(CallLimit(offset, limit), CallLimit(offset, limit))
sortOpt(f, dir) == optFunc(CallSortBy(f, dir), NoHook)
SortAsc(f) == sortOpt(f, ASC)
SortDesc(f) == sortOpt(f, DESC)
Group(keys) == optFunc(NoHook, CallGroupBy(keys))
Count(alias) == optFunc(NoHook, CallReduce(COUNT, <<>>, alias))
Sum(fld, alias) == optFunc(NoHook, CallReduce(SUM, fld, alias))
Avg(fld, alias) == optFunc(NoHook, CallReduce(AVG, fld, alias))

(***************************************************************************)
(* repository: Repo.Search and Repo.Aggregate up to RawArgs (the file      *)
(* query/compile.go holds them): the builder is made, bound to the          *)
(* executor, given the group keys and the filter, then the options are     *)
(* applied in order.                                                       *)
(***************************************************************************)
MaxOpts == 2       \* options of one Repo call

\* the options a caller passes, each with the name of its constructor
Opts ==
    {[name |-> "Select", o |-> Select(fs)] : fs \in FieldLists}
    \cup {[name |-> "Limit", o |-> Limit(3, 7)],
          [name |-> "SortAsc", o |-> SortAsc(<<"f">>)],
          [name |-> "SortDesc", o |-> SortDesc(<<"@", "f">>)],
          [name |-> "Group", o |-> Group(<<By(QTY), ByExpr(CITY)>>)],
          [name |-> "Count", o |-> Count(<<"n">>)],
          [name |-> "Sum", o |-> Sum(QTY, <<"s">>)],
          [name |-> "Avg", o |-> Avg(<<"@">> \o QTY, <<"a">>)]}

RepoWheres == {NilExpr, Eq(<<"f">>, IntV(12))}
RepoGroups == {<<>>, <<By(CITY)>>}

\* the calls Repo.Search makes before the options
RepoSearchCalls(w) ==
    <<CallUsing("ex")>> \o (IF w # NilExpr THEN <<CallWhere(w)>> ELSE <<>>)

\* the calls Repo.Aggregate makes before the options
RepoAggregateCalls(w, g) ==
    <<CallUsing("ex"), CallGroupBy(g)>> \o (IF w # NilExpr THEN <<CallWhere(w)>> ELSE <<>>)

RECURSIVE SearchCalls(_, _)
SearchCalls(b, cs) == IF cs = <<>> THEN b ELSE SearchCalls(SearchCall(b, Head(cs)), Tail(cs))

RECURSIVE AggregateCalls(_, _)
AggregateCalls(b, cs) ==
    IF cs = <<>> THEN b ELSE AggregateCalls(AggregateCall(b, Head(cs)), Tail(cs))

RepoStart ==
    /\ kind \in {"search", "aggregate"}
    /\ \E w \in RepoWheres, g \in RepoGroups :
         /\ hist = IF kind = "search" THEN RepoSearchCalls(w) ELSE RepoAggregateCalls(w, g)
         /\ kind = "aggregate" \/ g = <<>>
    /\ sb = IF kind = "search" THEN SearchCalls(NewSearch(IDX), hist) ELSE NewSearch(IDX)
    /\ ab = IF kind = "aggregate" THEN AggregateCalls(NewAggregate(IDX), hist)
            ELSE NewAggregate(IDX)
    /\ expr = NilExpr
    /\ depth = 0
    /\ compiled = NoCompiled
    /\ args = [of |-> "none", r |-> NoArgs]
    /\ fsBuf = <<>>
    /\ shared = FALSE
    /\ rawLog = <<>>
    /\ rpc = "idle"
    /\ ran = NoRes
    /\ doLog = <<>>
    /\ decoded = 0
    /\ opts = <<>>

\* for _, o := range opts { o.applySearch(sb) }, one option per step
ApplySearchOpt ==
    /\ kind = "search"
    /\ Len(opts) < MaxOpts
    /\ rawLog = <<>>
    /\ \E x \in Opts :
         /\ sb' = applySearch(x.o, sb)
         /\ hist' = IF x.o.search # NoHook THEN Append(hist, x.o.search) ELSE hist
         /\ opts' = Append(opts, x)
    /\ UNCHANGED <<kind, fsBuf, shared, rawLog, rpc, ran, doLog, decoded>>
    /\ UNCHANGED <<expr, depth, compiled, ab, args>>
    /\ UNCHANGED <<dvars, tvars, pvars>>

\* for _, o := range opts { o.applyAgg(ab) }, one option per step
ApplyAggOpt ==
    /\ kind = "aggregate"
    /\ Len(opts) < MaxOpts
    /\ rawLog = <<>>
    /\ \E x \in Opts :
         /\ ab' = applyAgg(x.o, ab)
         /\ hist' = IF x.o.agg # NoHook THEN Append(hist, x.o.agg) ELSE hist
         /\ opts' = Append(opts, x)
    /\ UNCHANGED <<kind, fsBuf, shared, rawLog, rpc, ran, doLog, decoded>>
    /\ UNCHANGED <<expr, depth, compiled, sb, args>>
    /\ UNCHANGED <<dvars, tvars, pvars>>

NextOptions ==
    \/ ApplySearchOpt
    \/ ApplyAggOpt
    \/ SbRawArgs
    \/ AbRawArgs

(***************************************************************************)
(* scan/mapper.go: typed assignment.  A target type is a struct type: its  *)
(* fields in declaration order, each with the value of its redisorm tag,   *)
(* its reflect.Kind and whether it is exported.  A struct value maps the   *)
(* field's index to its value.                                             *)
(***************************************************************************)
Field(tag, k, exported) == [tag |-> tag, kind |-> k, exported |-> exported]

IsDigit(c) == c \in {"0", "1", "2", "3", "4", "5", "6", "7", "8", "9"}
DigitVal(c) == CHOOSE d \in 0..9 : DigitChar(d) = c

\* the value of a run of decimal digits
RECURSIVE digitsVal(_, _)
digitsVal(ds, acc) == IF ds = <<>> THEN acc ELSE digitsVal(Tail(ds), 10 * acc + DigitVal(Head(ds)))

AllDigits(ds) == \A i \in 1..Len(ds) : IsDigit(ds[i])

\* strconv.ParseInt(s, 10, 64): an optional sign and at least one digit
ParseInt(s) ==
    LET signed == s # <<>> /\ Head(s) \in {"+", "-"}
        body == IF signed THEN Tail(s) ELSE s
    IN  IF body = <<>> \/ ~AllDigits(body) THEN [ok |-> FALSE, n |-> 0]
        ELSE [ok |-> TRUE,
              n |-> IF signed /\ Head(s) = "-" THEN -digitsVal(body, 0) ELSE digitsVal(body, 0)]

\* index of the first "." of s, or Len(s) + 1
RECURSIVE dotAt(_, _)
dotAt(s, i) == IF i > Len(s) \/ s[i] = "." THEN i ELSE dotAt(s, i + 1)

\* strconv.ParseFloat(s, 64) on decimal texts with at most one fractional
\* digit (the floats of the model are tenths); a text that is not a decimal
\* number fails
ParseFloat(s) ==
    LET signed == s # <<>> /\ Head(s) \in {"+", "-"}
        body == IF signed THEN Tail(s) ELSE s
        d == dotAt(body, 1)
        whole == SubSeq(body, 1, d - 1)
        frac == SubSeq(body, d + 1, Len(body))
        mag == 10 * digitsVal(whole, 0) + digitsVal(frac, 0)
    IN  IF (whole = <<>> /\ frac = <<>>) \/ ~AllDigits(whole) \/ ~AllDigits(frac) \/ Len(frac) > 1
        THEN [ok |-> FALSE, tenths |-> 0]
        ELSE [ok |-> TRUE, tenths |-> IF signed /\ Head(s) = "-" THEN -mag ELSE mag]

TRUE_TEXT == <<"t", "r", "u", "e">>

\* strings.Split(tag, ",")[0]
RECURSIVE beforeComma(_)
beforeComma(s) ==
    IF s = <<>> \/ Head(s) = "," THEN <<>> ELSE <<Head(s)>> \o beforeComma(Tail(s))

\* strings.TrimPrefix(s, "@")
TrimPrefixAt(s) == IF s # <<>> /\ Head(s) = "@" THEN Tail(s) ELSE s

buildMeta(rt) ==
    LET tagged == SelectSeq([i \in 1..Len(rt.fields) |-> i], LAMBDA i : rt.fields[i].tag # <<>>)
    IN  [j \in 1..Len(tagged) |->
            [name |-> TrimPrefixAt(beforeComma(rt.fields[tagged[j]].tag)), index |-> tagged[j],
             kind |-> rt.fields[tagged[j]].kind]]

\* the zero value of a field of kind k
ZeroOf(k) ==
    CASE k = "string" -> Str(<<>>)
      [] k \in {"int", "int64", "int32", "int16"} -> IntV(0)
      [] k \in {"float64", "float32"} -> F64(0)
      [] k = "bool" -> BoolV(FALSE)

\* var zero T
ZeroValue(rt) == [i \in 1..Len(rt.fields) |-> ZeroOf(rt.fields[i].kind)]

\* the switch on fm.kind for the text s: the value it sets, if it sets one.
\* SetInt stores the parsed integer unchanged: the integers of the model
\* fit every width the switch handles.
setOf(k, s) ==
    CASE k = "string" -> [set |-> TRUE, v |-> Str(s)]
      [] k \in {"int", "int64", "int32"} ->
            LET p == ParseInt(TrimSpace(s))
            IN  [set |-> p.ok, v |-> IntV(p.n)]
      [] k \in {"float32", "float64"} ->
            LET p == ParseFloat(TrimSpace(s))
            IN  [set |-> p.ok, v |-> F64(p.tenths)]
      [] k = "bool" -> [set |-> TRUE, v |-> BoolV(s = <<"1">> \/ EqualFold(s, TRUE_TEXT))]
      [] OTHER -> [set |-> FALSE, v |-> NilV]

\* for _, fm := range metaAny.([]fieldMeta) { ... } from entry j on.  A
\* Set method on a field that is not exported panics.
RECURSIVE assignFields(_, _, _, _, _)
assignFields(rt, meta, kv, val, j) ==
    IF j > Len(meta) THEN [panic |-> FALSE, val |-> val]
    ELSE LET fm == meta[j]
         IN  IF fm.name \in DOMAIN kv
             THEN LET w == setOf(fm.kind, kv[fm.name])
                  IN  IF ~w.set THEN assignFields(rt, meta, kv, val, j + 1)
                      ELSE IF ~rt.fields[fm.index].exported
                      THEN [panic |-> TRUE, val |-> val]
                      ELSE assignFields(rt, meta, kv, [val EXCEPT ![fm.index] = w.v], j + 1)
             ELSE assignFields(rt, meta, kv, val, j + 1)

\* sync.Map: Load and Store.  A miss loads nil.
NilMeta == <<[name |-> <<>>, index |-> 0, kind |-> "nil"]>>
Load(m, k) == IF k \in DOMAIN m THEN m[k] ELSE NilMeta

\* Store that empties the map first
Store_fresh(m, k, v) == [x \in {k} |-> v]

Store(m, k, v) == [x \in (DOMAIN m) \cup {k} |-> IF x = k THEN v ELSE m[x]]

(***************************************************************************)
(* Concurrent typed decodes: every goroutine runs assign on a row and a    *)
(* target type of its own, one after the other, all on one metaCache.      *)
(***************************************************************************)
MaxDecodes == 2    \* decodes a goroutine runs
G == {1, 2}        \* the goroutines

NAME == <<"n", "a", "m", "e">>
PRICE == <<"p", "r", "i", "c", "e">>
PAID == <<"p", "a", "i", "d">>

\* type Order struct { Name string `redisorm:"@name"`; Qty int `redisorm:"qty"`;
\*   Price float64 `redisorm:"price,omitempty"`; Paid bool `redisorm:"paid"`; Note string }
Order ==
    [name |-> "Order",
     fields |-> <<Field(<<"@">> \o NAME, "string", TRUE),
                  Field(QTY, "int", TRUE),
                  Field(PRICE \o <<",", "o">>, "float64", TRUE),
                  Field(PAID, "bool", TRUE),
                  Field(<<>>, "string", TRUE)>>]

\* type Stock struct { Note string; Qty int16 `redisorm:"qty"`; Price float32 `redisorm:"@price"` }
Stock ==
    [name |-> "Stock",
     fields |-> <<Field(<<>>, "string", TRUE),
                  Field(QTY, "int16", TRUE),
                  Field(<<"@">> \o PRICE, "float32", TRUE)>>]

\* type line struct { Name string `redisorm:"name"`; qty int64 `redisorm:"qty"` }
Line ==
    [name |-> "Line",
     fields |-> <<Field(NAME, "string", TRUE),
                  Field(QTY, "int64", FALSE)>>]

Types == {Order, Stock, Line}
TypeNames == {rt.name : rt \in Types}
TypeOf(n) == CHOOSE rt \in Types : rt.name = n

\* rows as toStrMap returns them: trimmed texts
RowOf(pairs) == [k \in {p[1] : p \in pairs} |-> (CHOOSE p \in pairs : p[1] = k)[2]]
TypedRows ==
    {RowOf({<<QTY, <<"7">>>>}),
     RowOf({<<QTY, <<"a", "b", "c">>>>}),
     RowOf({<<NAME, <<"b", "o", "b">>>>, <<QTY, <<"-", "1", "2">>>>,
            <<PRICE, <<"1", ".", "5">>>>, <<PAID, <<"T", "R", "U", "E">>>>}),
     RowOf({<<NAME, <<>>>>, <<QTY, <<"7", ".", "5">>>>, <<PRICE, <<"x">>>>, <<PAID, <<"1">>>>}),
     RowOf({<<PRICE, <<"3">>>>, <<PAID, <<"0">>>>}),
     EmptyMap}

IdleTask ==
    [pc |-> "idle", rt |-> "", kv |-> EmptyMap, metaAny |-> NilMeta, val |-> <<>>,
     res |-> "none", n |-> 0]

TypedIdle ==
    /\ metaCache = [x \in {} |-> NilMeta]
    /\ task = [g \in G |-> IdleTask]

\* assign(&out[i], m) begins: val := reflect.ValueOf(ptr).Elem(); rt := val.Type()
AssignStart(g) ==
    /\ task[g].pc \in {"idle", "done"}
    /\ task[g].n < MaxDecodes
    /\ \E rt \in Types, kv \in TypedRows :
         task' = [task EXCEPT ![g] =
                    [pc |-> "load", rt |-> rt.name, kv |-> kv, metaAny |-> NilMeta,
                     val |-> ZeroValue(rt), res |-> "none", n |-> task[g].n + 1]]
    /\ UNCHANGED metaCache
    /\ UNCHANGED <<dvars, qvars, bvars, pvars>>

\* metaAny, _ := metaCache.Load(rt)
AssignLoad(g) ==
    /\ task[g].pc = "load"
    /\ LET m == Load(metaCache, task[g].rt)
       IN  task' = [task EXCEPT ![g].metaAny = m,
                                ![g].pc = IF m = NilMeta THEN "miss" ELSE "fields"]
    /\ UNCHANGED metaCache
    /\ UNCHANGED <<dvars, qvars, bvars, pvars>>

\* metaAny = buildMeta(rt); metaCache.Store(rt, metaAny)
AssignMiss(g) ==
    /\ task[g].pc = "miss"
    /\ LET m == buildMeta(TypeOf(task[g].rt))
       IN  /\ metaCache' = Store(metaCache, task[g].rt, m)
           /\ task' = [task EXCEPT ![g].metaAny = m, ![g].pc = "fields"]
    /\ UNCHANGED <<dvars, qvars, bvars, pvars>>

\* the loop over the metadata, then return nil
AssignFields(g) ==
    /\ task[g].pc = "fields"
    /\ LET r == assignFields(TypeOf(task[g].rt), task[g].metaAny, task[g].kv, task[g].val, 1)
       IN  task' = [task EXCEPT ![g].val = r.val,
                                ![g].res = IF r.panic THEN "panic" ELSE "nil",
                                ![g].pc = IF r.panic THEN "panicked" ELSE "done"]
    /\ UNCHANGED metaCache
    /\ UNCHANGED <<dvars, qvars, bvars, pvars>>

NextTyped ==
    \/ \E g \in G : AssignStart(g)
    \/ \E g \in G : AssignLoad(g)
    \/ \E g \in G : AssignMiss(g)
    \/ \E g \in G : AssignFields(g)

(***************************************************************************)
(* A caller that keeps one expression and compiles it again and again,     *)
(* with Compile calls on other expressions, builder mutators and RawArgs   *)
(* calls in between.                                                       *)
(***************************************************************************)
MaxCompiles == 3   \* Compile calls made on the kept expression

\* var sb strings.Builder: a new, empty builder, whatever the builder of an
\* earlier call ended with
stringsBuilder_kept(prev) == prev

stringsBuilder(prev) == <<>>

\* Compile's body: declare the builder, e.compile(&sb), return sb.String()
CompileCall(prev, e) ==
    LET b0 == stringsBuilder(prev)
        c == compile(e)
    IN  IF c.panic THEN NilDeref ELSE Wrote(b0 \o c.s)

KeptExprs ==
    {Eq(<<"f">>, Str(<<" ", "a">>)),
     In(<<"@", "f">>, <<Str(<<"a">>), I64(-3)>>),
     Range(<<"f">>, IntV(1), F64(25), TRUE),
     And(<<Eq(<<"f">>, IntV(12)), MatchAll>>),
     Or(<<Not(Eq(<<"f">>, NilV)), Eq(<<>>, F64(15))>>),
     Not(NilExpr),
     MatchAll}

OtherExprs == {Eq(<<"g">>, IntV(1)), And(<<>>)}

CompileIdle == compLog = <<>>

CompileStart ==
    /\ expr \in KeptExprs
    /\ depth = 0
    /\ compiled = NoCompiled
    /\ sb = NewSearch(IDX)
    /\ ab = NewAggregate(IDX)
    /\ args = [of |-> "none", r |-> NoArgs]
    /\ compLog = <<>>

\* s := Compile(expr), on the kept expression
CompileKept ==
    /\ Len(compLog) < MaxCompiles
    /\ LET c == CompileCall(compiled.s, expr)
       IN  /\ compiled' = [done |-> TRUE, panic |-> c.panic, s |-> c.s]
           /\ compLog' = Append(compLog, c)
    /\ UNCHANGED <<expr, depth, sb, ab, args>>
    /\ UNCHANGED <<pool, bufs, brw>>
    /\ UNCHANGED <<dvars, bvars, tvars>>

\* Compile(e), on another expression
CompileOther ==
    /\ \E e \in OtherExprs :
         LET c == CompileCall(compiled.s, e)
         IN  compiled' = [done |-> TRUE, panic |-> c.panic, s |-> c.s]
    /\ UNCHANGED <<expr, depth, sb, ab, args, compLog>>
    /\ UNCHANGED <<pool, bufs, brw>>
    /\ UNCHANGED <<dvars, bvars, tvars>>

\* sb.Where(e), with the kept expression or another one
KeptSearchWhere ==
    /\ \E e \in {expr} \cup OtherExprs : sb' = SearchBuilder_Where(sb, e)
    /\ UNCHANGED <<expr, depth, compiled, ab, args, compLog>>
    /\ UNCHANGED <<pool, bufs, brw>>
    /\ UNCHANGED <<dvars, bvars, tvars>>

\* ab.Where(expr)
KeptAggregateWhere ==
    /\ ab' = AggregateBuilder_Where(ab, expr)
    /\ UNCHANGED <<expr, depth, compiled, sb, args, compLog>>
    /\ UNCHANGED <<pool, bufs, brw>>
    /\ UNCHANGED <<dvars, bvars, tvars>>

\* sb.Limit(off, lim)
KeptSearchLimit ==
    /\ \E l \in Limits : sb' = SearchBuilder_Limit(sb, l[1], l[2])
    /\ UNCHANGED <<expr, depth, compiled, ab, args, compLog>>
    /\ UNCHANGED <<pool, bufs, brw>>
    /\ UNCHANGED <<dvars, bvars, tvars>>

\* sb.RawArgs(), which compiles the builder's filter
KeptSearchRawArgs ==
    /\ args' = [of |-> "search", r |-> SearchRawArgs(sb)]
    /\ UNCHANGED <<expr, depth, compiled, sb, ab, compLog>>
    /\ UNCHANGED <<pool, bufs, brw>>
    /\ UNCHANGED <<dvars, bvars, tvars>>

\* ab.RawArgs()
KeptAggregateRawArgs ==
    /\ args' = [of |-> "aggregate", r |-> AggregateRawArgs(ab)]
    /\ UNCHANGED <<expr, depth, compiled, sb, ab, compLog>>
    /\ UNCHANGED <<pool, bufs, brw>>
    /\ UNCHANGED <<dvars, bvars, tvars>>

NextCompile ==
    \/ CompileKept
    \/ CompileOther
    \/ KeptSearchWhere
    \/ KeptAggregateWhere
    \/ KeptSearchLimit
    \/ KeptSearchRawArgs
    \/ KeptAggregateRawArgs

(***************************************************************************)
(* scan.DecodeSlice[T] and assign[T] for any element type, and Repo.Search *)
(* (the file query/compile.go holds package repository), which decodes     *)
(* with T = any.                                                           *)
(***************************************************************************)
MaxRows == 2       \* rows of a reply to Repo.Search

\* element types that are not structs: their name and reflect.Kind
AnyType == [name |-> "interface {}", kind |-> "interface"]
StrMapType == [name |-> "map[string]string", kind |-> "map"]

kindOf(T) == IF "kind" \in DOMAIN T THEN T.kind ELSE "struct"

\* rt.NumField() panics unless rt is a struct type
NumField(rt) ==
    IF kindOf(rt) = "struct" THEN [panic |-> FALSE, n |-> Len(rt.fields)]
    ELSE [panic |-> TRUE, n |-> 0]

\* assign(&out[i], kv) on a zero element of type T, with the cache as it is:
\* the element's new value, the cache afterwards, or a panic
assign(T, cache, kv) ==
    IF kindOf(T) = "map"
    THEN [panic |-> FALSE, v |-> Row(kv), cache |-> cache]
    ELSE LET hit == Load(cache, T.name)
         IN  IF hit = NilMeta /\ NumField(T).panic
             THEN \* buildMeta(rt) calls rt.NumField()
                  [panic |-> TRUE, v |-> NilV, cache |-> cache]
             ELSE LET metaAny == IF hit = NilMeta THEN buildMeta(T) ELSE hit
                      r == assignFields(T, metaAny, kv, ZeroValue(T), 1)
                  IN  [panic |-> r.panic, v |-> r.val,
                       cache |-> IF hit = NilMeta THEN Store(cache, T.name, metaAny) ELSE cache]

\* scan.DecodeSlice[any](resp)
ElemType == AnyType

\* replies of both wire shapes with n rows, and a reply that is no search reply
RowMap(i) == SMap([k \in {QTY} |-> I64(i)])
LegacyReply(n) == <<I64(n)>> \o LegacyRest([i \in 1..n |-> FlatList(0, 2)], 0)
KeyedReply(n) ==
    SMap([k \in {RESULTS} |->
            Slice([i \in 1..n |-> SMap([x \in {EXTRA_ATTRIBUTES} |-> RowMap(i)])])])
SearchReplies ==
    {Slice(LegacyReply(n)) : n \in 0..MaxRows}
    \cup {SliceCmd(LegacyReply(n)) : n \in 0..MaxRows}
    \cup {KeyedReply(n) : n \in 0..MaxRows}
    \cup {Str(<<"O", "K">>)}
SearchOutcomes ==
    {[r |-> NilV, err |-> e] : e \in ExecErrors} \cup {[r |-> v, err |-> ""] : v \in SearchReplies}

\* sb := q.NewSearch(indexName).Using(r.exec); if where != nil { sb.Where(where) }
SearchStart ==
    /\ RepoStart
    /\ kind = "search"

\* raw, err := sb.RawArgs(); resp, err := r.exec.Do(ctx, raw...), up to the call of Do
SearchDo ==
    /\ kind = "search"
    /\ rpc = "idle"
    /\ LET r == SearchRawArgs(sb)
       IN  /\ args' = [of |-> "search", r |-> r]
           /\ rawLog' = Append(rawLog, [afterRun |-> FALSE, r |-> r])
           /\ IF r.panic
              THEN /\ ran' = Panicked("nil pointer dereference")
                   /\ rpc' = "done"
                   /\ UNCHANGED doLog
              ELSE /\ doLog' = Append(doLog, [args |-> r.args, ret |-> Pending])
                   /\ rpc' = "do"
                   /\ UNCHANGED ran
    /\ UNCHANGED <<kind, hist, fsBuf, shared, decoded, opts>>
    /\ UNCHANGED <<expr, depth, compiled, sb, ab>>
    /\ UNCHANGED <<dvars, tvars, pvars>>

\* Do returns: if err != nil { return nil, err }; else DecodeSlice is entered
SearchDoReturns ==
    /\ kind = "search"
    /\ rpc = "do"
    /\ dpc = "idle"
    /\ \E o \in SearchOutcomes :
         /\ doLog' = [doLog EXCEPT ![Len(doLog)].ret = o]
         /\ IF o.err # ""
            THEN /\ ran' = Failed(o.err)
                 /\ rpc' = "done"
                 /\ UNCHANGED <<raw, dpc>>
            ELSE /\ raw' = o.r
                 /\ dpc' = "normalize"
                 /\ UNCHANGED <<ran, rpc>>
    /\ UNCHANGED <<reply, total, hits, out, idx, res>>
    /\ UNCHANGED <<kind, hist, fsBuf, shared, rawLog, decoded, opts>>
    /\ UNCHANGED <<qvars, tvars, pvars>>

\* reply, err := normalize(raw); if err != nil { return nil, err }
SliceNormalize ==
    /\ rpc = "do"
    /\ dpc = "normalize"
    /\ LET n == normalize(raw)
       IN  IF n.err # ""
           THEN /\ res' = Failed(n.err)
                /\ dpc' = "done"
                /\ UNCHANGED reply
           ELSE /\ reply' = n.v
                /\ dpc' = "extract"
                /\ UNCHANGED res
    /\ UNCHANGED <<raw, total, hits, out, idx>>
    /\ UNCHANGED <<qvars, bvars, tvars, pvars>>

\* total, hits, err := extractHits(reply); out := make([]T, total)
SliceExtract ==
    /\ rpc = "do"
    /\ dpc = "extract"
    /\ LET e == extractHits(reply)
       IN  CASE e.st = "panic" ->
                  /\ res' = Panicked(e.err)
                  /\ dpc' = "done"
                  /\ UNCHANGED <<total, hits, out>>
             [] e.st = "err" ->
                  /\ res' = Failed(e.err)
                  /\ dpc' = "done"
                  /\ UNCHANGED <<total, hits, out>>
             [] e.st = "ok" ->
                  /\ total' = e.total
                  /\ hits' = e.hits
                  /\ out' = [i \in 1..e.total |-> NilV]
                  /\ dpc' = "loop"
                  /\ UNCHANGED res
    /\ UNCHANGED <<raw, reply, idx>>
    /\ UNCHANGED <<qvars, bvars, tvars, pvars>>

\* one iteration of the loop: m, err := toStrMap(kv); assign(&out[i], m)
SliceRow ==
    /\ rpc = "do"
    /\ dpc = "loop"
    /\ idx < Len(hits)
    /\ LET r == toStrMap(hits[idx + 1])
       IN  IF r.err # ""
           THEN /\ res' = Failed(r.err)
                /\ dpc' = "done"
                /\ UNCHANGED <<out, idx, metaCache>>
           ELSE IF idx >= Len(out)
           THEN /\ res' = Panicked("index out of range")
                /\ dpc' = "done"
                /\ UNCHANGED <<out, idx, metaCache>>
           ELSE LET a == assign(ElemType, metaCache, r.m)
                IN  IF a.panic
                    THEN /\ res' = Panicked("reflect: NumField of non-struct type")
                         /\ dpc' = "done"
                         /\ UNCHANGED <<out, idx, metaCache>>
                    ELSE /\ out' = [out EXCEPT ![idx + 1] = a.v]
                         /\ idx' = idx + 1
                         /\ metaCache' = a.cache
                         /\ UNCHANGED <<res, dpc>>
    /\ UNCHANGED <<raw, reply, total, hits>>
    /\ UNCHANGED task
    /\ UNCHANGED <<qvars, bvars, pvars>>

\* return out, nil
SliceReturn ==
    /\ rpc = "do"
    /\ dpc = "loop"
    /\ idx = Len(hits)
    /\ res' = Rows(out)
    /\ dpc' = "done"
    /\ UNCHANGED <<raw, reply, total, hits, out, idx>>
    /\ UNCHANGED <<qvars, bvars, tvars, pvars>>

\* return scan.DecodeSlice[any](resp)
SearchReturn ==
    /\ rpc = "do"
    /\ dpc = "done"
    /\ ran' = res
    /\ rpc' = "done"
    /\ UNCHANGED <<kind, hist, fsBuf, shared, rawLog, doLog, decoded, opts>>
    /\ UNCHANGED <<dvars, qvars, tvars, pvars>>

NextSearch ==
    \/ ApplySearchOpt
    \/ SearchDo
    \/ SearchDoReturns
    \/ SliceNormalize
    \/ SliceExtract
    \/ SliceRow
    \/ SliceReturn
    \/ SearchReturn

(***************************************************************************)
(* internal: builderPool, a sync.Pool of *strings.Builder.                 *)
(***************************************************************************)
B == {1, 2}        \* the borrowers

NoBuilder == "nil"   \* the borrower holds no builder

\* a borrower: its position, the builder it holds, the length of that
\* builder when GetBuilder took it from the pool (had) and when GetBuilder
\* returned it (got), and the number of its GetBuilder calls
IdleBorrower == [pc |-> "idle", b |-> NoBuilder, got |-> 0, n |-> 0, had |-> 0]

PoolIdle ==
    /\ pool = {}
    /\ bufs = <<>>
    /\ brw = [g \in B |-> IdleBorrower]

MaxBorrows == 2    \* GetBuilder calls of one borrower
MaxBufs == 2       \* builders builderPool.New allocates
MaxText == 2       \* characters a borrower writes into a builder

\* (*strings.Builder).Reset that leaves the text in place
Reset_keep(s) == s

\* (*strings.Builder).Reset
Reset(s) == <<>>

\* builderPool.New: new(strings.Builder)
New == <<>>

\* b := builderPool.Get().(*strings.Builder): a builder of the pool, taken
\* out of it, or a new one (the pool is empty, or it has dropped its items
\* or does not see them from this goroutine)
PoolGet(g) ==
    /\ brw[g].pc = "idle"
    /\ brw[g].n < MaxBorrows
    /\ \/ \E id \in pool :
            /\ pool' = pool \ {id}
            /\ brw' = [brw EXCEPT ![g] = [pc |-> "reset", b |-> id, got |-> 0,
                                          n |-> brw[g].n + 1, had |-> Len(bufs[id])]]
            /\ UNCHANGED bufs
       \/ /\ Len(bufs) < MaxBufs
          /\ bufs' = Append(bufs, New)
          /\ brw' = [brw EXCEPT ![g] = [pc |-> "reset", b |-> Len(bufs) + 1, got |-> 0,
                                        n |-> brw[g].n + 1, had |-> 0]]
          /\ UNCHANGED pool
    /\ UNCHANGED compLog
    /\ UNCHANGED <<dvars, qvars, bvars, tvars>>

\* b.Reset()
GetReset(g) ==
    /\ brw[g].pc = "reset"
    /\ bufs' = [bufs EXCEPT ![brw[g].b] = Reset(bufs[brw[g].b])]
    /\ brw' = [brw EXCEPT ![g].pc = "return"]
    /\ UNCHANGED <<pool, compLog>>
    /\ UNCHANGED <<dvars, qvars, bvars, tvars>>

\* return b: the borrower has the builder, with the text it holds now
GetReturn(g) ==
    /\ brw[g].pc = "return"
    /\ brw' = [brw EXCEPT ![g].pc = "held", ![g].got = Len(bufs[brw[g].b])]
    /\ UNCHANGED <<pool, bufs, compLog>>
    /\ UNCHANGED <<dvars, qvars, bvars, tvars>>

\* the borrower writes into the builder it holds: Expr.compile(sb)
BorrowerWrite(g) ==
    /\ brw[g].pc = "held"
    /\ Len(bufs[brw[g].b]) < MaxText
    /\ bufs' = [bufs EXCEPT ![brw[g].b] = Append(bufs[brw[g].b], "x")]
    /\ UNCHANGED <<pool, brw, compLog>>
    /\ UNCHANGED <<dvars, qvars, bvars, tvars>>

\* PutBuilder(b): builderPool.Put(b); the borrower discards its reference
PutBuilder(g) ==
    /\ brw[g].pc = "held"
    /\ pool' = pool \cup {brw[g].b}
    /\ brw' = [brw EXCEPT ![g].pc = "idle", ![g].b = NoBuilder]
    /\ UNCHANGED <<bufs, compLog>>
    /\ UNCHANGED <<dvars, qvars, bvars, tvars>>

\* sync.Pool drops an item it holds (a garbage collection)
PoolDrop ==
    /\ \E id \in pool : pool' = pool \ {id}
    /\ UNCHANGED <<bufs, brw, compLog>>
    /\ UNCHANGED <<dvars, qvars, bvars, tvars>>

NextPool ==
    \/ \E g \in B : PoolGet(g)
    \/ \E g \in B : GetReset(g)
    \/ \E g \in B : GetReturn(g)
    \/ \E g \in B : BorrowerWrite(g)
    \/ \E g \in B : PutBuilder(g)
    \/ PoolDrop

(***************************************************************************)
(* Specifications: the decoder on every reply, the query caller, a builder *)
(* session, the options of a Repo call, and concurrent typed decodes.      *)
(***************************************************************************)
DecodeIdle ==
    /\ raw = NilV
    /\ dpc = "idle"
    /\ reply = NilV
    /\ total = 0
    /\ hits = <<>>
    /\ out = <<>>
    /\ idx = 0
    /\ res = NoRes

InitDecode == DecodeStart /\ QueryStart /\ BuilderIdle /\ TypedIdle /\ CompileIdle /\ PoolIdle

InitQuery == QueryStart /\ DecodeIdle /\ BuilderIdle /\ TypedIdle /\ CompileIdle /\ PoolIdle

SpecDecode == InitDecode /\ [][NextDecode]_vars

SpecQuery == InitQuery /\ [][NextQuery]_vars

InitBuilder == QueryStart /\ BuilderStart /\ DecodeIdle /\ TypedIdle /\ CompileIdle /\ PoolIdle

InitRun == BuilderStart /\ QueryStart /\ DecodeIdle /\ TypedIdle /\ CompileIdle /\ PoolIdle

InitOptions == RepoStart /\ DecodeIdle /\ TypedIdle /\ CompileIdle /\ PoolIdle

InitTyped == TypedIdle /\ QueryStart /\ BuilderIdle /\ DecodeIdle /\ CompileIdle /\ PoolIdle

SpecBuilder == InitBuilder /\ [][NextBuilder]_vars

SpecRun == InitRun /\ [][NextRun]_vars

SpecOptions == InitOptions /\ [][NextOptions]_vars

SpecTyped == InitTyped /\ [][NextTyped]_vars

InitCompile == CompileStart /\ BuilderIdle /\ DecodeIdle /\ TypedIdle /\ PoolIdle

SpecCompile == InitCompile /\ [][NextCompile]_vars

InitSearch == SearchStart /\ DecodeIdle /\ TypedIdle /\ CompileIdle /\ PoolIdle

SpecSearch == InitSearch /\ [][NextSearch]_vars

InitPool == PoolIdle /\ QueryStart /\ BuilderIdle /\ DecodeIdle /\ TypedIdle /\ CompileIdle

SpecPool == InitPool /\ [][NextPool]_vars

(***************************************************************************)
(* Reading a reply the way the claims describe it.                         *)
(***************************************************************************)
IsMapping(v) == v.t \in {"smap", "gmap"}
IsArray(v) == v.t \in {"slice", "slicecmd"}
ArrayOf(v) == IF v.t = "slice" THEN v.xs ELSE v.val

\* a mapping seen through its keys coerced to strings
Has(e, name) ==
    IF e.t = "smap" THEN name \in DOMAIN e.m
    ELSE \E j \in 1..Len(e.kv) : toStr(e.kv[j][1]) = name
Get(e, name) ==
    IF e.t = "smap" THEN e.m[name]
    ELSE LET last == CHOOSE j \in 1..Len(e.kv) :
                        /\ toStr(e.kv[j][1]) = name
                        /\ \A h \in (j + 1)..Len(e.kv) : toStr(e.kv[h][1]) # name
         IN  e.kv[last][2]

HasResults(v) == IsMapping(v) /\ Has(v, RESULTS) /\ Get(v, RESULTS).t = "slice"
ResultsOf(v) == Get(v, RESULTS).xs

\* the payload a result entry stands for
Picked(e) ==
    IF Has(e, EXTRA_ATTRIBUTES) THEN Get(e, EXTRA_ATTRIBUTES)
    ELSE IF Has(e, VALUES) THEN Get(e, VALUES)
    ELSE e

\* identifier/payload pairs that follow the count element
PairsIn(arr) == IF Len(arr) = 0 THEN 0 ELSE (Len(arr) - 1) \div 2
PayloadAt(arr, i) == arr[2 * i + 1]

PresentRows(v) ==
    IF IsArray(v) THEN PairsIn(ArrayOf(v)) ELSE Len(ResultsOf(v))

SupportedPayload(p) == p.t \in {"slice", "smap", "gmap"}

Done == dpc = "done"

(***************************************************************************)
(* C1: every call of the decoder ends by returning rows or an error value; *)
(* it never crashes, whatever the reply.                                   *)
(***************************************************************************)
C1_DecoderTotal == Done => res.kind \in {"rows", "error"}

(***************************************************************************)
(* C2: when a decode succeeds, the number of rows returned is the number   *)
(* of row payload entries present in the reply (legacy array: the pairs    *)
(* after the count element, whatever the count says; keyed map: the length *)
(* of results), and none of them is a placeholder.                         *)
(***************************************************************************)
C2_RowsArePresentEntries ==
    (Done /\ res.kind = "rows") =>
        /\ Len(res.rows) = PresentRows(raw)
        /\ \A i \in 1..Len(res.rows) : ~res.rows[i].isnil

(***************************************************************************)
(* C3: a reply that matches neither wire shape, or whose required marker   *)
(* is absent or mistyped (top level neither sequence nor mapping, keyed    *)
(* map without a results sequence, legacy array that is empty or whose     *)
(* first element is not an integer, result entry or payload of unsupported *)
(* type), ends as a decode failure with no rows.                           *)
(***************************************************************************)
Malformed(v) ==
    \/ ~IsArray(v) /\ ~IsMapping(v)
    \/ IsMapping(v) /\ ~HasResults(v)
    \/ IsArray(v) /\ Len(ArrayOf(v)) = 0
    \/ IsArray(v) /\ Len(ArrayOf(v)) > 0 /\ ArrayOf(v)[1].t # "int64"
    \/ HasResults(v) /\ \E i \in 1..Len(ResultsOf(v)) :
          \/ ~IsMapping(ResultsOf(v)[i])
          \/ ~SupportedPayload(Picked(ResultsOf(v)[i]))
    \/ IsArray(v) /\ \E i \in 1..PairsIn(ArrayOf(v)) :
          ~SupportedPayload(PayloadAt(ArrayOf(v), i))

C3_MalformedIsDecodeFailure ==
    (Done /\ Malformed(raw)) => (res.kind = "error" /\ res.rows = <<>>)

(***************************************************************************)
(* C4: a legacy array [n, id1, p1, ..., idn, pn] whose count equals the    *)
(* number of pairs and whose payloads are flat even-length key/value       *)
(* sequences decodes to exactly n rows in reply order; row i maps each key *)
(* of payload i to its value as trimmed text (the last value of a repeated *)
(* key), and no document identifier appears in a row.                      *)
(***************************************************************************)
\* the trimmed text of the scalars the payloads are made of
TextOf(v) ==
    CASE v = Str(<<"k">>) -> <<"k">>
      [] v = Str(<<" ", "k">>) -> <<"k">>
      [] v = Bytes(<<"b", " ">>) -> <<"b">>
      [] v = I64(7) -> <<"7">>
      [] v = Str(<<" ", "v", " ">>) -> <<"v">>
      [] v = Bytes(<<"\t", "w">>) -> <<"w">>
      [] v = I64(-12) -> <<"-", "1", "2">>
      [] v = F64(15) -> <<"1", ".", "5">>

ExpectedRow(xs) ==
    LET n == Len(xs) \div 2
        keyAt(j) == TextOf(xs[2 * j - 1])
        lastOf(k) == CHOOSE j \in 1..n : keyAt(j) = k /\ \A h \in (j + 1)..n : keyAt(h) # k
    IN  [k \in {keyAt(j) : j \in 1..n} |-> TextOf(xs[2 * lastOf(k)])]

WellFormedLegacy(v) ==
    /\ IsArray(v)
    /\ Len(ArrayOf(v)) > 0
    /\ ArrayOf(v)[1].t = "int64"
    /\ ArrayOf(v)[1].n = PairsIn(ArrayOf(v))
    /\ \A i \in 1..PairsIn(ArrayOf(v)) :
          /\ PayloadAt(ArrayOf(v), i).t = "slice"
          /\ Len(PayloadAt(ArrayOf(v), i).xs) % 2 = 0

IdTexts == {DocId(i).s : i \in 1..(MaxPairs + 2)}

C4_LegacyRows ==
    (Done /\ WellFormedLegacy(raw)) =>
        LET arr == ArrayOf(raw)
        IN  /\ res.kind = "rows"
            /\ Len(res.rows) = arr[1].n
            /\ \A i \in 1..Len(res.rows) :
                  /\ ~res.rows[i].isnil
                  /\ res.rows[i].m = ExpectedRow(PayloadAt(arr, i).xs)
                  /\ \A k \in DOMAIN res.rows[i].m :
                        k \notin IdTexts /\ res.rows[i].m[k] \notin IdTexts

C4_Witness ==
    /\ Done
    /\ WellFormedLegacy(raw)
    /\ res.kind = "rows"
    /\ Len(res.rows) = 2
    /\ res.rows[1].m # res.rows[2].m
    /\ Cardinality(DOMAIN res.rows[1].m) = 2
    /\ Len(PayloadAt(ArrayOf(raw), 2).xs) = 4

(***************************************************************************)
(* C5: in a keyed-map reply with a results sequence each result entry      *)
(* yields one row, in order, taken from its extra_attributes value if that *)
(* key is present, else from its values value if present, else from the    *)
(* entry itself; string-keyed and generic-keyed mappings whose keys coerce *)
(* to the same strings give the same outcome.                              *)
(***************************************************************************)
\* the string-keyed mapping a generic-keyed one coerces to
Coerced(e) ==
    IF e.t = "smap" THEN e
    ELSE SMap([k \in {toStr(e.kv[j][1]) : j \in 1..Len(e.kv)} |-> Get(e, k)])

\* the reply with its top level and its result entries string-keyed
StringKeyedTwin(v) ==
    LET top == Coerced(v).m
    IN  SMap([k \in DOMAIN top |->
                IF k = RESULTS /\ top[k].t = "slice"
                THEN Slice([i \in 1..Len(top[k].xs) |->
                              IF IsMapping(top[k].xs[i]) THEN Coerced(top[k].xs[i])
                              ELSE top[k].xs[i]])
                ELSE top[k]])

\* what DecodeMaps ends with on v: normalize, extractHits, then toStrMap on every hit
Outcome(v) ==
    LET n == normalize(v)
    IN  IF n.err # "" THEN Failed(n.err)
        ELSE LET e == extractHits(n.v)
             IN  IF e.st = "panic" THEN Panicked(e.err)
                 ELSE IF e.st = "err" THEN Failed(e.err)
                 ELSE IF \E i \in 1..Len(e.hits) : toStrMap(e.hits[i]).err # ""
                 THEN Failed("scan: unsupported kv type")
                 ELSE Rows([i \in 1..Len(e.hits) |-> Row(toStrMap(e.hits[i]).m)])

EntriesDecodable(v) ==
    \A i \in 1..Len(ResultsOf(v)) :
        IsMapping(ResultsOf(v)[i]) /\ SupportedPayload(Picked(ResultsOf(v)[i]))

C5_KeyedRows ==
    (Done /\ HasResults(raw)) =>
        /\ IF EntriesDecodable(raw)
           THEN /\ res.kind = "rows"
                /\ Len(res.rows) = Len(ResultsOf(raw))
                /\ \A i \in 1..Len(res.rows) :
                      res.rows[i] = Row(toStrMap(Picked(ResultsOf(raw)[i])).m)
           ELSE res.kind = "error"
        /\ res = Outcome(StringKeyedTwin(raw))

C5_Witness ==
    /\ Done
    /\ raw.t = "gmap"
    /\ HasResults(raw)
    /\ res.kind = "rows"
    /\ Len(res.rows) = 2
    /\ ResultsOf(raw)[1].t = "gmap"
    /\ Has(ResultsOf(raw)[1], EXTRA_ATTRIBUTES) /\ Has(ResultsOf(raw)[1], VALUES)
    /\ ResultsOf(raw)[2].t = "smap"
    /\ ~Has(ResultsOf(raw)[2], EXTRA_ATTRIBUTES) /\ Has(ResultsOf(raw)[2], VALUES)
    /\ res.rows[1].m = [k \in {QTY} |-> <<"3">>]

(***************************************************************************)
(* C6: Compile returns exactly one string and never crashes, for every     *)
(* expression built with Eq, In, Range, And, Or, Not and MatchAll, nil     *)
(* sub-expressions included.                                               *)
(***************************************************************************)
C6_CompileTotal == (compiled.done /\ expr # NilExpr) => ~compiled.panic

(***************************************************************************)
(* C7: Compile(Eq(f, v)) is F:{v}, and Compile(Range(f, lo, hi, inc)) is   *)
(* F:[lo hi] when inclusive and F:(lo hi) when exclusive, where F is f     *)
(* with one leading @ added only if f does not start with one.             *)
(***************************************************************************)
\* the text of the scalars used as predicate values
ValText(v) ==
    CASE v = Str(<<" ", "a">>) -> <<" ", "a">>
      [] v = Str(<<"a">>) -> <<"a">>
      [] v = IntV(12) -> <<"1", "2">>
      [] v = IntV(1) -> <<"1">>
      [] v = IntV(20) -> <<"2", "0">>
      [] v = I64(-3) -> <<"-", "3">>
      [] v = F64(15) -> <<"1", ".", "5">>
      [] v = F64(25) -> <<"2", ".", "5">>
      [] v = Str(<<"-", "i", "n", "f">>) -> <<"-", "i", "n", "f">>
      [] v = NilV -> <<"<", "n", "i", "l", ">">>

StartsWithAt(f) == Len(f) > 0 /\ f[1] = "@"
Marked(f) == IF StartsWithAt(f) THEN f ELSE <<"@">> \o f

C7_EqAndRange ==
    /\ (compiled.done /\ expr.k = "eq") =>
          /\ ~compiled.panic
          /\ compiled.s = Marked(expr.f) \o <<":", "{">> \o ValText(expr.v) \o <<"}">>
          /\ field(field(expr.f)) = field(expr.f)
    /\ (compiled.done /\ expr.k = "rng") =>
          /\ ~compiled.panic
          /\ compiled.s = Marked(expr.f) \o <<":">>
                          \o (IF expr.inc THEN <<"[">> ELSE <<"(">>)
                          \o ValText(expr.lo) \o <<" ">> \o ValText(expr.hi)
                          \o (IF expr.inc THEN <<"]">> ELSE <<")">>)

C7_Witness ==
    /\ compiled.done
    /\ expr.k = "rng"
    /\ ~expr.inc
    /\ StartsWithAt(expr.f)
    /\ compiled.s = <<"@", "f", ":", "(", "-", "i", "n", "f", " ", "2", ".", "5", ")">>

(***************************************************************************)
(* C8: And(xs) compiles to "(" + the compiled sub-expressions joined by a  *)
(* space + ")", Or(xs) to the same joined by "|", Not(x) to "-(" +         *)
(* Compile(x) + ")": nothing is flattened, a nested And keeps its own      *)
(* parentheses; the combinator crashes exactly when a sub-expression does. *)
(***************************************************************************)
RECURSIVE Joined(_, _)
Joined(ss, sep) ==
    IF ss = <<>> THEN <<>>
    ELSE IF Len(ss) = 1 THEN ss[1]
    ELSE ss[1] \o sep \o Joined(Tail(ss), sep)

SubTexts(xs) == [i \in 1..Len(xs) |-> Compile(xs[i]).s]
SomePanics(xs) == \E i \in 1..Len(xs) : Compile(xs[i]).panic

C8_Combinators ==
    /\ (compiled.done /\ expr.k \in {"and", "or"}) =>
          IF SomePanics(expr.xs) THEN compiled.panic
          ELSE /\ ~compiled.panic
               /\ compiled.s = <<"(">>
                     \o Joined(SubTexts(expr.xs), IF expr.k = "and" THEN <<" ">> ELSE <<"|">>)
                     \o <<")">>
    /\ (compiled.done /\ expr.k = "not") =>
          IF Compile(expr.x).panic THEN compiled.panic
          ELSE /\ ~compiled.panic
               /\ compiled.s = <<"-", "(">> \o Compile(expr.x).s \o <<")">>

C8_Witness ==
    /\ compiled.done
    /\ ~compiled.panic
    /\ expr.k = "and"
    /\ Len(expr.xs) = 2
    /\ expr.xs[1].k = "and"
    /\ Len(expr.xs[1].xs) = 2
    /\ expr.xs[1].xs[1].k = "eq"
    /\ SubSeq(compiled.s, 1, 2) = <<"(", "(">>

(***************************************************************************)
(* C9: Compile(In(f, vs)) is F:{v1|v2|...|vn}, the values in the given     *)
(* order separated by "|" with no trailing separator, and F:{} for the     *)
(* empty list.                                                             *)
(***************************************************************************)
C9_In ==
    (compiled.done /\ expr.k = "in") =>
        /\ ~compiled.panic
        /\ compiled.s = Marked(expr.f) \o <<":", "{">>
              \o Joined([i \in 1..Len(expr.vs) |-> ValText(expr.vs[i])], <<"|">>)
              \o <<"}">>
        /\ Len(expr.vs) = 0 => compiled.s = Marked(expr.f) \o <<":", "{", "}">>

C9_Witness ==
    /\ compiled.done
    /\ expr.k = "in"
    /\ Len(expr.vs) = 2
    /\ expr.vs[1] # expr.vs[2]
    /\ compiled.s = <<"@", "f", ":", "{", "-", "3", "|", "a", "}">>

(***************************************************************************)
(* C10: the third element of RawArgs, in both builders, is "*" when no     *)
(* filter was set or the filter is exactly MatchAll, and otherwise "(" +   *)
(* Compile(filter) + ")", also when MatchAll sits inside a combinator.     *)
(***************************************************************************)
BuilderOf(a) == IF a.of = "search" THEN sb ELSE ab

C10_QueryElement ==
    (args.of # "none") =>
        LET w == BuilderOf(args).where
        IN  IF w = NilExpr \/ w = MatchAll
            THEN ~args.r.panic /\ args.r.args[3] = <<"*">>
            ELSE IF Compile(w).panic THEN args.r.panic
            ELSE /\ ~args.r.panic
                 /\ args.r.args[3] = <<"(">> \o Compile(w).s \o <<")">>

C10_Witness ==
    /\ args.of = "aggregate"
    /\ ab.where = And(<<MatchAll>>)
    /\ args.r.args[3] = <<"(", "(", "*", ")", ")">>

(***************************************************************************)
(* Reading a builder session the way the claims describe it: from the      *)
(* mutator calls made so far.                                              *)
(***************************************************************************)
CallsOf(op) == SelectSeq(hist, LAMBDA c : c.op = op)
Called(op) == CallsOf(op) # <<>>
LastCall(op) == CallsOf(op)[Len(CallsOf(op))]

\* the decimal text of the numbers the sessions use
NumText(n) ==
    CASE n = 0 -> <<"0">>
      [] n = 1 -> <<"1">>
      [] n = 2 -> <<"2">>
      [] n = 3 -> <<"3">>
      [] n = 4 -> <<"4">>
      [] n = 5 -> <<"5">>
      [] n = 7 -> <<"7">>
      [] n = 20 -> <<"2", "0">>
      [] n = 10000 -> <<"1", "0", "0", "0", "0">>

CurWhere == IF Called("Where") THEN LastCall("Where").e ELSE NilExpr
CurProjection == IF Called("Select") THEN LastCall("Select").fs ELSE <<>>
CurSortField == IF Called("SortBy") THEN LastCall("SortBy").f ELSE <<>>
CurSortDir == IF Called("SortBy") THEN LastCall("SortBy").d ELSE <<>>
CurOffset == IF Called("Limit") THEN LastCall("Limit").off ELSE 0
CurLimit == IF Called("Limit") THEN LastCall("Limit").lim ELSE 10000
CurKeys == IF Called("GroupBy") THEN LastCall("GroupBy").keys ELSE <<>>

\* RawArgs has no value when compiling the filter panics (a nil
\* sub-expression); otherwise the query element is the one of queryOf
QueryPanics == queryOf(CurWhere).panic
QueryElement == queryOf(CurWhere).s

\* the results of the RawArgs calls that returned
Vectors == {rawLog[i].r.args : i \in {j \in 1..Len(rawLog) : ~rawLog[j].r.panic}}

ReturnClause ==
    IF CurProjection # <<>>
    THEN <<RETURN, NumText(Len(CurProjection))>> \o CurProjection
    ELSE <<>>
SortClause == IF CurSortField # <<>> THEN <<SORTBY, CurSortField, CurSortDir>> ELSE <<>>
LimitClause == <<LIMIT, NumText(CurOffset), NumText(CurLimit)>>

\* the reference a group key is expected to be emitted as
KeyRef(g) ==
    CASE g = GroupKeyOf(1) -> <<"@", "c">>
      [] g = GroupKeyOf(2) -> <<"u", "(", "@", "n", ")">>
      [] g = GroupKeyOf(3) -> <<"@", "c">>

IsCountFn(fn) == fn \in {<<"C", "O", "U", "N", "T">>, <<"c", "o", "u", "n", "t">>}

\* the encoding of one Reduce call
ReduceClause(c) ==
    IF IsCountFn(c.fn) THEN <<REDUCE, c.fn, <<"0">>, AS, c.alias>>
    ELSE <<REDUCE, c.fn, <<"1">>, <<"@">> \o c.field, AS, c.alias>>

RECURSIVE Concat(_)
Concat(ss) == IF ss = <<>> THEN <<>> ELSE Head(ss) \o Concat(Tail(ss))

\* every RawArgs call of the session returned, unless the filter cannot be compiled
Returned == \A i \in 1..Len(rawLog) : rawLog[i].r.panic = QueryPanics

(***************************************************************************)
(* C11: after any sequence of mutator calls on a SearchBuilder, RawArgs is *)
(* FT.SEARCH, index, query, then RETURN n f1..fn iff the projection is     *)
(* non-empty, then SORTBY field direction iff a non-empty sort field is    *)
(* set, then LIMIT offset limit, whatever the order of the calls.          *)
(***************************************************************************)
C11_SearchClauses ==
    kind = "search" =>
        /\ Returned
        /\ \A a \in Vectors :
             a = <<FT_SEARCH, IDX, QueryElement>> \o ReturnClause \o SortClause \o LimitClause

\* a projection set before a sort that was set before the filter, and a
\* vector with all three clauses
C11_Witness ==
    /\ kind = "search"
    /\ Len(hist) = 3
    /\ hist[1].op = "Select" /\ hist[1].fs # <<>>
    /\ hist[2].op = "SortBy" /\ hist[2].f # <<>>
    /\ hist[3].op = "Where" /\ ~QueryPanics
    /\ Vectors # {}

(***************************************************************************)
(* C12: the REDUCE section of AggregateBuilder.RawArgs is the              *)
(* concatenation, in call order, of one encoding per Reduce call made      *)
(* since construction: REDUCE fn 0 AS alias for a COUNT reducer, REDUCE fn *)
(* 1 @field AS alias for any other.                                        *)
(***************************************************************************)
ReduceSection(a) == SubSeq(a, 6 + Len(CurKeys), Len(a) - 3)

C12_ReduceSection ==
    kind = "aggregate" =>
        /\ Returned
        /\ \A a \in Vectors :
             ReduceSection(a) =
                 Concat([i \in 1..Len(CallsOf("Reduce")) |-> ReduceClause(CallsOf("Reduce")[i])])

\* the same function reduced twice with another mutator in between
C12_Witness ==
    /\ kind = "aggregate"
    /\ Len(hist) = 3
    /\ hist[1].op = "Reduce" /\ hist[3].op = "Reduce" /\ hist[1].fn = hist[3].fn
    /\ hist[2].op = "GroupBy" /\ hist[2].keys # <<>>
    /\ Vectors # {}

(***************************************************************************)
(* C13: AggregateBuilder.RawArgs holds, right after the query element,     *)
(* GROUPBY, a count and exactly that many key references: the keys of the  *)
(* most recent GroupBy call in order (count 0 if there was none); a By key *)
(* has one leading @ added only if absent, a ByExpr key is verbatim, and   *)
(* an alias set with As never appears.                                     *)
(***************************************************************************)
C13_GroupByClause ==
    kind = "aggregate" =>
        /\ Returned
        /\ \A a \in Vectors :
             /\ SubSeq(a, 4, 5 + Len(CurKeys))
                  = <<GROUPBY, NumText(Len(CurKeys))>> \o [i \in 1..Len(CurKeys) |-> KeyRef(CurKeys[i])]
             /\ a[6 + Len(CurKeys)] \in {REDUCE, LIMIT}
             /\ \A i \in 1..Len(a), k \in 1..Len(CurKeys) :
                  CurKeys[k].alias # <<>> => a[i] # CurKeys[k].alias

\* a second GroupBy, with an aliased expression key and an already marked
\* field, after a first one
C13_Witness ==
    /\ kind = "aggregate"
    /\ Len(CallsOf("GroupBy")) >= 2
    /\ \E k \in 1..Len(CurKeys) : CurKeys[k].alias # <<>>
    /\ \E k \in 1..Len(CurKeys) : CurKeys[k] = By(<<"@", "c">>)
    /\ CallsOf("GroupBy")[1].keys = <<By(<<"c">>)>>
    /\ Vectors # {}

(***************************************************************************)
(* C14: for both builders the argument vector ends with LIMIT, offset,     *)
(* limit: the arguments of the most recent Limit call, or 0 and 10000 if   *)
(* Limit was never called.                                                 *)
(***************************************************************************)
C14_Pagination ==
    /\ Returned
    /\ \A a \in Vectors :
         /\ Len(a) >= 6
         /\ SubSeq(a, Len(a) - 2, Len(a)) = LimitClause

\* a vector after two different Limit calls
C14_Witness ==
    /\ Len(CallsOf("Limit")) >= 2
    /\ CallsOf("Limit")[1] # LastCall("Limit")
    /\ CurLimit = 0
    /\ Vectors # {}

(***************************************************************************)
(* C15: Run on a builder with no executor bound returns a configuration    *)
(* error and no rows, without crashing and without invoking an executor or *)
(* the decoder; RawArgs on the same builder returns the full argument      *)
(* vector with no error, before and after the failed Run.                  *)
(***************************************************************************)
ExpectedVector ==
    IF kind = "search"
    THEN <<FT_SEARCH, IDX, QueryElement>> \o ReturnClause \o SortClause \o LimitClause
    ELSE <<FT_AGGREGATE, IDX, QueryElement>>
         \o <<GROUPBY, NumText(Len(CurKeys))>> \o [i \in 1..Len(CurKeys) |-> KeyRef(CurKeys[i])]
         \o Concat([i \in 1..Len(CallsOf("Reduce")) |-> ReduceClause(CallsOf("Reduce")[i])])
         \o LimitClause

C15_NoExecutor ==
    (rpc = "done" /\ ~Called("Using")) =>
        /\ ran = Failed("query: executor not set (call Using())")
        /\ ran.rows = <<>>
        /\ doLog = <<>>
        /\ decoded = 0
        /\ \A i \in 1..Len(rawLog) :
             rawLog[i].r = IF QueryPanics THEN ArgsPanic
                           ELSE [panic |-> FALSE, args |-> ExpectedVector, err |-> "nil"]

\* a configured builder without executor, inspected before and after its Run
C15_Witness ==
    /\ rpc = "done"
    /\ ~Called("Using")
    /\ hist # <<>>
    /\ ~QueryPanics
    /\ Len(rawLog) = 2
    /\ ~rawLog[1].afterRun /\ rawLog[2].afterRun

(***************************************************************************)
(* C16: when the bound executor's call fails, Run returns no rows and      *)
(* exactly the error the executor returned; the executor is invoked once   *)
(* per Run and the decoder is not run.                                     *)
(***************************************************************************)
C16_TransportError ==
    /\ Len(doLog) <= 1
    /\ (rpc = "done" /\ doLog # <<>> /\ doLog[1].ret.err # "") =>
           /\ ran.kind = "error"
           /\ ran.err = doLog[1].ret.err
           /\ ran.rows = <<>>
           /\ decoded = 0
    /\ (rpc = "done" /\ Called("Using") /\ ~QueryPanics) =>
           (Len(doLog) = 1 /\ doLog[1].args = ExpectedVector)

\* a Run whose executor failed with the second error
C16_Witness ==
    /\ rpc = "done"
    /\ Len(doLog) = 1
    /\ doLog[1].ret.err = "driver: connection refused"
    /\ ran.kind = "error"

(***************************************************************************)
(* C17: typed assignment never fails: every declared field of kind string, *)
(* integer, float or boolean is set to the parsed value when the row has   *)
(* an entry under the field's name whose text parses into that kind, and   *)
(* keeps its zero value when the entry is missing or does not parse; no    *)
(* row content makes the decode fail.                                      *)
(***************************************************************************)
\* the row key a declared field is read from
DeclaredName(tn, i) ==
    CASE tn = "Order" /\ i = 1 -> <<"n", "a", "m", "e">>
      [] tn = "Order" /\ i = 2 -> <<"q", "t", "y">>
      [] tn = "Order" /\ i = 3 -> <<"p", "r", "i", "c", "e">>
      [] tn = "Order" /\ i = 4 -> <<"p", "a", "i", "d">>
      [] tn = "Stock" /\ i = 2 -> <<"q", "t", "y">>
      [] tn = "Stock" /\ i = 3 -> <<"p", "r", "i", "c", "e">>
      [] tn = "Line" /\ i = 1 -> <<"n", "a", "m", "e">>
      [] tn = "Line" /\ i = 2 -> <<"q", "t", "y">>

Declared(rt) == {i \in 1..Len(rt.fields) : rt.fields[i].tag # <<>>}

\* the value a text parses into, for each kind of field
Parsed(k, s) ==
    CASE k = "string" -> [ok |-> TRUE, v |-> Str(s)]
      [] k \in {"int", "int64", "int32", "int16"} ->
            (CASE s = <<"7">> -> [ok |-> TRUE, v |-> IntV(7)]
               [] s = <<"-", "1", "2">> -> [ok |-> TRUE, v |-> IntV(-12)]
               [] s = <<"3">> -> [ok |-> TRUE, v |-> IntV(3)]
               [] s = <<"1">> -> [ok |-> TRUE, v |-> IntV(1)]
               [] s = <<"0">> -> [ok |-> TRUE, v |-> IntV(0)]
               [] OTHER -> [ok |-> FALSE, v |-> NilV])
      [] k \in {"float64", "float32"} ->
            (CASE s = <<"7">> -> [ok |-> TRUE, v |-> F64(70)]
               [] s = <<"-", "1", "2">> -> [ok |-> TRUE, v |-> F64(-120)]
               [] s = <<"1", ".", "5">> -> [ok |-> TRUE, v |-> F64(15)]
               [] s = <<"7", ".", "5">> -> [ok |-> TRUE, v |-> F64(75)]
               [] s = <<"3">> -> [ok |-> TRUE, v |-> F64(30)]
               [] s = <<"1">> -> [ok |-> TRUE, v |-> F64(10)]
               [] s = <<"0">> -> [ok |-> TRUE, v |-> F64(0)]
               [] OTHER -> [ok |-> FALSE, v |-> NilV])
      [] k = "bool" ->
            (CASE s \in {<<"1">>, <<"T", "R", "U", "E">>} -> [ok |-> TRUE, v |-> BoolV(TRUE)]
               [] s = <<"0">> -> [ok |-> TRUE, v |-> BoolV(FALSE)]
               [] OTHER -> [ok |-> FALSE, v |-> NilV])

\* the field value the claim describes
FieldWanted(rt, i, kv) ==
    LET nm == DeclaredName(rt.name, i)
        k == rt.fields[i].kind
    IN  IF nm \in DOMAIN kv /\ Parsed(k, kv[nm]).ok THEN Parsed(k, kv[nm]).v ELSE ZeroOf(k)

Ended(g) == task[g].pc \in {"done", "panicked"}

C17_TypedAssign ==
    \A g \in G :
        Ended(g) =>
            /\ task[g].res = "nil"
            /\ \A i \in 1..Len(TypeOf(task[g].rt).fields) :
                 task[g].val[i] = IF i \in Declared(TypeOf(task[g].rt))
                                  THEN FieldWanted(TypeOf(task[g].rt), i, task[g].kv)
                                  ELSE ZeroOf(TypeOf(task[g].rt).fields[i].kind)

(***************************************************************************)
(* C18: an option is a no-op on the builder kind it does not target:       *)
(* Select, SortAsc and SortDesc leave an AggregateBuilder (and its         *)
(* RawArgs) unchanged, Group, Count, Sum and Avg leave a SearchBuilder     *)
(* unchanged, and Limit changes the pagination of both kinds, for any      *)
(* ordered list of options.                                                *)
(***************************************************************************)
SearchOnly == {"Select", "SortAsc", "SortDesc"}
AggregateOnly == {"Group", "Count", "Sum", "Avg"}

\* the option applied by the step, if the step applies one
Applied == opts'[Len(opts')]
Applying == Len(opts') = Len(opts) + 1

C19_SelectCopies ==
    kind = "search" =>
        /\ sb.returnFields = CurProjection
        /\ \A a \in Vectors :
             IF CurProjection = <<>>
             THEN \A i \in 1..Len(a) : a[i] # RETURN
             ELSE /\ a[4] = RETURN
                  /\ SubSeq(a, 6, 5 + Len(CurProjection)) = CurProjection
                  /\ a[6 + Len(CurProjection)] \in {SORTBY, LIMIT}

\* a second Select, then the caller overwrites its list, then RawArgs
C19_Witness ==
    /\ kind = "search"
    /\ Len(CallsOf("Select")) >= 2
    /\ CallsOf("Select")[1].fs # <<>>
    /\ CurProjection # <<>>
    /\ fsBuf # CurProjection
    /\ Vectors # {}

(***************************************************************************)
(* C20: under any interleaving of concurrent typed decodes the metadata    *)
(* cache only grows: an entry is never removed, its value always equals    *)
(* the metadata computed from its shape, and every decode assigns fields   *)
(* using metadata equal to that value.                                     *)
(***************************************************************************)
\* the metadata of each target type
MetaOf(tn) ==
    CASE tn = "Order" ->
            <<[name |-> <<"n", "a", "m", "e">>, index |-> 1, kind |-> "string"],
              [name |-> <<"q", "t", "y">>, index |-> 2, kind |-> "int"],
              [name |-> <<"p", "r", "i", "c", "e">>, index |-> 3, kind |-> "float64"],
              [name |-> <<"p", "a", "i", "d">>, index |-> 4, kind |-> "bool"]>>
      [] tn = "Stock" ->
            <<[name |-> <<"q", "t", "y">>, index |-> 2, kind |-> "int16"],
              [name |-> <<"p", "r", "i", "c", "e">>, index |-> 3, kind |-> "float32"]>>
      [] tn = "Line" ->
            <<[name |-> <<"n", "a", "m", "e">>, index |-> 1, kind |-> "string"],
              [name |-> <<"q", "t", "y">>, index |-> 2, kind |-> "int64"]>>

CacheSound ==
    /\ \A tn \in DOMAIN metaCache : metaCache[tn] = MetaOf(tn)
    /\ \A g \in G : task[g].pc = "fields" => task[g].metaAny = MetaOf(task[g].rt)

CacheGrows == \A tn \in DOMAIN metaCache : tn \in DOMAIN metaCache' /\ metaCache'[tn] = metaCache[tn]

C20_CacheMonotone == [](CacheSound) /\ [][CacheGrows]_vars

\* two first uses of one type racing: one goroutine has stored and assigns,
\* the other loaded nil and is about to store again, next to an older entry
C20_Witness ==
    /\ task[1].rt = task[2].rt
    /\ task[1].pc = "miss"
    /\ task[2].pc = "fields"
    /\ task[1].rt \in DOMAIN metaCache
    /\ Cardinality(DOMAIN metaCache) >= 2

(***************************************************************************)
(* Repeated compilation.                                                   *)
(***************************************************************************)
\* every Compile call made on the kept expression so far ended the same way
SameOutcomes == \A i, j \in 1..Len(compLog) : compLog[i] = compLog[j]

\* a step in which a Compile call was made
Compiling == compiled' # compiled \/ compLog' # compLog

Succeeded == Len(doLog) = 1 /\ doLog[1].ret.err = ""
Resp == doLog[1].ret.r

\* a reply of either wire shape: a legacy array whose count is its number of
\* pairs, each payload a flat list, or a keyed map with a results sequence
WellFormedReply(v) == WellFormedLegacy(v) \/ HasResults(v)

\* C22: Repo.Search, given an executor that succeeds with a well-formed reply
\* of n rows, returns n results and no error, without crashing, for n >= 0.
C22_SearchReturnsRows ==
    (rpc = "done" /\ Succeeded /\ WellFormedReply(Resp)) =>
        (ran.kind = "rows" /\ Len(ran.rows) = PresentRows(Resp))

(***************************************************************************)
(* Reducer fields.                                                         *)
(***************************************************************************)
\* the encoding of a Reduce call whose field reference is normalized the way
\* By and field normalize theirs: one leading @, added only if absent
NormalizedClause(c) ==
    IF IsCountFn(c.fn) THEN <<REDUCE, c.fn, <<"0">>, AS, c.alias>>
    ELSE <<REDUCE, c.fn, <<"1">>, field(c.field), AS, c.alias>>

\* C23: the field argument of every non-COUNT reducer is emitted with one
\* leading @, whether Reduce was given the field with or without it.
C23_ReducerFieldOnce ==
    kind = "aggregate" =>
        \A a \in Vectors :
            ReduceSection(a) =
                Concat([i \in 1..Len(CallsOf("Reduce")) |-> NormalizedClause(CallsOf("Reduce")[i])])

(***************************************************************************)
(* The builder pool.                                                       *)
(***************************************************************************)
\* C24: the builder GetBuilder hands out is empty at the moment it is
\* returned to the borrower, for every interleaving of the borrowers'
\* GetBuilder and PutBuilder calls, a builder put back with text included.
C24_BorrowedEmpty == \A g \in B : brw[g].pc = "held" => brw[g].got = 0

\* a borrower was handed, empty, a builder that was put back holding text,
\* while the other borrower is inside GetBuilder
C24_Witness ==
    \E g, h \in B :
        /\ brw[g].pc = "held" /\ brw[g].had > 0 /\ brw[g].got = 0
        /\ brw[h].pc \in {"reset", "return"}

====
